---------------------------- MODULE Spec2Model ----------------------------
(***************************************************************************)
(* Screen2Action backend: the MCP server process manager and line-framed   *)
(* JSON-RPC client of backend/app/services/mcp_client.py (class MCPClient).*)
(*                                                                         *)
(* The registry (servers, active_server, server_processes), the children   *)
(* it spawned and the stdout pipe of each child are the state.  A call is  *)
(* cut where it waits: deactivate_server at await asyncio.sleep, and       *)
(* activate_server, execute_tool and list_tools where they wait for the    *)
(* child (select, readline).  What the child writes while a call waits for *)
(* it is an input of the action that reads it; what else a child does      *)
(* (exit, close a stream, leave a line unterminated, write between calls)  *)
(* is an action of its own.                                                *)
(***************************************************************************)
EXTENDS Integers, Sequences, FiniteSets, TLC

(***************************************************************************)
(* Bounds of the model.                                                    *)
(***************************************************************************)
\* children spawned in one behaviour
MaxSpawn == 2
\* lines a child writes in one write
MaxBurst == 2
\* messages the client writes to a child during one call
MaxSent == 2

(***************************************************************************)
(* Program constants.                                                      *)
(***************************************************************************)
\* "id": 1 of the initialize request
InitId == 1
\* "id": 2 of the tools/list request
ListId == 2
\* "id": 3 of the tools/call request
CallId == 3

Tasks == {1, 2}

NoServer == "None"
UnknownName == "unknown"

(***************************************************************************)
(* Lines on the child's stdout.  t is what json.loads makes of the stripped*)
(* line: "blank" (nothing left after strip), "text" (not JSON), "nonobj"   *)
(* (JSON, but no dict), "obj" (a dict).  For a dict: id (0: no "id" key),  *)
(* method ("": no "method" key), body ("result", "error" or "none"),       *)
(* tools (result is a dict with a "tools" key) and val, the payload.       *)
(***************************************************************************)
Line(t, id, method, body, tools, val) ==
    [t |-> t, id |-> id, method |-> method, body |-> body, tools |-> tools, val |-> val]

BlankLine   == Line("blank", 0, "", "none", FALSE, "")
TextLine    == Line("text", 0, "", "none", FALSE, "")
NonObjLine  == Line("nonobj", 0, "", "none", FALSE, "")
RootsReq    == Line("obj", 7, "roots/list", "none", FALSE, "")
InitResult  == Line("obj", InitId, "", "result", FALSE, "init-result")
InitError   == Line("obj", InitId, "", "error", FALSE, "init-error")
Notif       == Line("obj", 0, "notifications/message", "none", FALSE, "")
ListResp    == Line("obj", ListId, "", "result", TRUE, "tools-of-child")
CallResp    == Line("obj", CallId, "", "result", FALSE, "call-result")
CallErr     == Line("obj", CallId, "", "error", FALSE, "call-error")
NoLine      == Line("none", 0, "", "none", FALSE, "")

\* the first line of what a child writes inside the handshake window
HsLines == {TextLine, NonObjLine, RootsReq, InitResult, InitError}
\* of what it writes after the window has closed, before the next request
LateLines == {InitResult, RootsReq, ListResp}
\* of what it writes in reaction to a tools/list or tools/call request
ReactLines == {ListResp, CallResp, CallErr, Notif}
\* the lines that may follow the first one in the same write: requests and
\* responses of the protocol
HsTails == {RootsReq, InitResult}
LateTails == {ListResp}
ReactTails == {ListResp, CallResp}


(***************************************************************************)
(* Paths are sequences of segments below the filesystem root.              *)
(***************************************************************************)
\* _get_recordings_dir(): the absolute recordings root
RecordingsDir == <<"recordings">>
\* Path.cwd()
Cwd == <<"backend">>

NoSession == ""
Sessions == {"S1", "S2"}
Mtimes == 1..2
\* the mtime of a directory created now
Now == CHOOSE m \in Mtimes : \A k \in Mtimes : k <= m

\* session ids that are not a plain name: one with ".." segments and one
\* that is an absolute path
OddSessions == {"../outside", "/etc"}

\* a session id read as a path: whether it is absolute, and its segments
SidPath(sid) ==
    CASE sid = "../outside" -> [abs |-> FALSE, parts |-> <<"..", "outside">>]
      [] sid = "/etc"       -> [abs |-> TRUE, parts |-> <<"etc">>]
      [] OTHER              -> [abs |-> FALSE, parts |-> <<sid>>]

\* base / session_id: the segments of the session id follow those of base,
\* ".." kept as it is; an absolute session id replaces base
JoinPath(base, sid) ==
    IF SidPath(sid).abs THEN SidPath(sid).parts ELSE base \o SidPath(sid).parts

RECURSIVE ResolvePath(_)
\* Path.resolve(): ".." segments are folded into their parent
ResolvePath(p) ==
    IF p = <<>> THEN <<>>
    ELSE LET init == ResolvePath(SubSeq(p, 1, Len(p) - 1))
             last == p[Len(p)]
         IN  IF last = ".." THEN (IF init = <<>> THEN <<>> ELSE SubSeq(init, 1, Len(init) - 1))
             ELSE Append(init, last)

\* Path.as_uri()
AsUri(p) == [scheme |-> "file", path |-> p]

\* _build_roots(base_path)
BuildRoots(base_path) ==
    << [uri  |-> AsUri(ResolvePath(base_path)),
        name |-> IF base_path = <<>> THEN "root" ELSE base_path[Len(base_path)]] >>

\* an entry of the recordings root: its st_mtime and whether is_dir() holds
Entry(m, d) == [mtime |-> m, is_dir |-> d]

\* the orders in which os.scandir may enumerate the entries in dirs
ScanOrders(dirs) ==
    {o \in [1..Cardinality(DOMAIN dirs) -> DOMAIN dirs] :
        \A i, j \in DOMAIN o : i # j => o[i] # o[j]}

\* the entries that are candidates: every entry, a plain file too
AnyEntry(dirs) == DOMAIN dirs

\* the entries that are candidates (line 464): those for which is_dir() holds
Candidates(dirs) == {d \in DOMAIN dirs : dirs[d].is_dir}

\* _get_latest_session_id(): candidates in scan order, stable sort by mtime,
\* descending; "" stands for None
GetLatestSessionId(dirs, order) ==
    LET cands == Candidates(dirs)
    IN  IF cands = {} THEN ""
        ELSE LET top == CHOOSE m \in Mtimes :
                            /\ \E d \in cands : dirs[d].mtime = m
                            /\ \A d \in cands : dirs[d].mtime <= m
                 first == CHOOSE i \in DOMAIN order :
                            /\ order[i] \in cands /\ dirs[order[i]].mtime = top
                            /\ \A j \in DOMAIN order :
                                  (order[j] \in cands /\ dirs[order[j]].mtime = top) => i <= j
             IN  order[first]

\* _resolve_session_dir(session_id)
ResolveSessionDir(dirs, order, session_id) ==
    IF session_id # NoSession THEN JoinPath(RecordingsDir, session_id)
    ELSE LET latest == GetLatestSessionId(dirs, order)
         IN  IF latest # "" THEN JoinPath(RecordingsDir, latest) ELSE RecordingsDir

\* a mkdir that creates nothing
NoMkdir(dirs, target, m) == dirs

\* target.mkdir(parents=True, exist_ok=True) for a target at or below the
\* recordings root that is absent or a directory; a directory that is created
\* gets mtime m
Mkdir(dirs, target, m) ==
    IF Len(target) = Len(RecordingsDir) + 1 /\ target[Len(target)] \notin DOMAIN dirs
    THEN [d \in DOMAIN dirs \cup {target[Len(target)]} |->
             IF d \in DOMAIN dirs THEN dirs[d] ELSE Entry(m, TRUE)]
    ELSE dirs

(***************************************************************************)
(* The server definitions (MCPServerConfig).  Three of the six built-in    *)
(* definitions are kept: the filesystem provider, one provider that is     *)
(* disabled by default and one enabled provider that takes "stdio".        *)
(***************************************************************************)
\* MCPServerConfig (lines 31-40); env is None or a mapping, kept by a name
NoEnv == "None"
MCPServerConfig(name, command, args, env, enabled, description, icon) ==
    [name |-> name, command |-> command, args |-> args, env |-> env,
     enabled |-> enabled, description |-> description, icon |-> icon]

DefaultServers ==
    [n \in {"filesystem", "web-search", "memory"} |->
        CASE n = "filesystem" ->
               MCPServerConfig(n, "npx", <<"-y", "server-filesystem">>, NoEnv, TRUE,
                               "File system operations", "folder")
          [] n = "web-search" ->
               MCPServerConfig(n, "npx", <<"-y", "server-brave-search", "stdio">>,
                               "BRAVE_API_KEY", FALSE, "Web search", "glass")
          [] n = "memory" ->
               MCPServerConfig(n, "npx", <<"-y", "server-memory", "stdio">>, NoEnv, TRUE,
                               "In-memory knowledge graph", "brain")]

(***************************************************************************)
(* The configuration file config/mcp_servers.json: whether it exists,      *)
(* whether it holds a complete JSON document, and the entries of "servers" *)
(* written to it: name -> the keys of one entry.                           *)
(***************************************************************************)
NoDefs == [n \in {} |-> 0]
File(entries, complete) == [exists |-> TRUE, complete |-> complete, servers |-> entries]
NoFile == [exists |-> FALSE, complete |-> FALSE, servers |-> NoDefs]

\* the entry save_config writes for a definition (lines 411-418): its name is
\* the key and not among the values
ToJson(server) ==
    [command |-> server.command, args |-> server.args, env |-> server.env,
     enabled |-> server.enabled, description |-> server.description,
     icon |-> server.icon]

\* the definition _load_config builds of an entry (lines 389-397)
FromJson(name, data) ==
    MCPServerConfig(name, data.command, data.args, data.env, data.enabled,
                    data.description, data.icon)

\* _load_config (lines 379-402) on an empty registry: json.load raises on a
\* file that holds no complete document, and the except leaves the registry
\* empty
LoadConfig(f) ==
    IF f.exists /\ f.complete
    THEN [n \in DOMAIN f.servers |-> FromJson(n, f.servers[n])]
    ELSE NoDefs

\* a merge in which a built-in definition replaces the loaded one
DefaultsWin(loaded, defaults) ==
    [n \in DOMAIN loaded \cup DOMAIN defaults |->
        IF n \in DOMAIN defaults THEN defaults[n] ELSE loaded[n]]

\* _load_default_servers (lines 152-155): a built-in definition is added
\* when its name is not in the registry
LoadDefaultServers(loaded, defaults) ==
    [n \in DOMAIN loaded \cup DOMAIN defaults |->
        IF n \in DOMAIN loaded THEN loaded[n] ELSE defaults[n]]

\* the registry after __init__ (lines 47-60) with the file f on disk
Construct(f) == LoadDefaultServers(LoadConfig(f), DefaultServers)

\* the entries of the document save_config writes for the registry
Document(srv) == [n \in DOMAIN srv |-> ToJson(srv[n])]

\* save_config (lines 404-425): open(config_path, 'w') truncates the file and
\* json.dump writes the document into it.  written: the entries that have
\* reached the file when the process stops inside the with block (stopped);
\* otherwise the block is left and the file closed.
SaveConfig(srv, stopped, written) ==
    IF ~stopped THEN File(Document(srv), TRUE)
    ELSE File([n \in written |-> ToJson(srv[n])], FALSE)

(***************************************************************************)
(* Messages the client writes to a child's stdin.                          *)
(***************************************************************************)
Msg(kind, id, roots) == [kind |-> kind, id |-> id, roots |-> roots]
InitRequest     == Msg("initialize", InitId, <<>>)
RootsReply(id, roots) == Msg("response", id, roots)
ListChanged     == Msg("roots/list_changed", 0, <<>>)
ListRequest     == Msg("tools/list", ListId, <<>>)
CallRequest     == Msg("tools/call", CallId, <<>>)

(***************************************************************************)
(* A child process and the client's end of its pipes.                      *)
(*   alive   the process has not exited (Popen.poll() is None)             *)
(*   sig     the strongest signal the client has sent it                   *)
(*   stdin   the child still holds the read end of its stdin               *)
(*   os      complete lines in the kernel pipe of its stdout               *)
(*   py      complete lines already read into the TextIOWrapper buffer     *)
(*   partial where an unterminated line fragment sits: "none", "os", "py"  *)
(*   eof     the write end of its stdout is closed                         *)
(*   held    the client still holds the Popen object                       *)
(***************************************************************************)
NewChild(name, argv, stderr) ==
    [name |-> name, argv |-> argv, alive |-> TRUE, sig |-> "none", stdin |-> TRUE,
     os |-> <<>>, py |-> <<>>, partial |-> "none", eof |-> FALSE,
     stderr |-> stderr, held |-> TRUE]

\* the child exits: its ends of the pipes are closed
Exited(c) == [c EXCEPT !.alive = FALSE, !.stdin = FALSE, !.eof = TRUE]

\* an argv element is a string, kept as its pieces between "/"
Text(s) == <<s>>
\* str(path) of an absolute path: "/" before every segment
Str(p) == <<"">> \o p

NoCmd == <<>>

\* the directory the filesystem child was given: its last argument (line 558)
ChildDir(c) ==
    IF c.name = "filesystem" /\ c.argv # NoCmd THEN Tail(c.argv[Len(c.argv)]) ELSE <<>>

\* the last reference to the Popen object is dropped: its pipes are closed.
\* Of such a child only whether it lives, and if so which signal it was
\* sent, is kept.
Dropped(c) ==
    [c EXCEPT !.held = FALSE, !.os = <<>>, !.py = <<>>, !.partial = "none",
              !.eof = ~c.alive, !.stdin = c.alive, !.stderr = "",
              !.name = "", !.argv = NoCmd,
              !.sig = IF c.alive THEN c.sig ELSE "none"]

\* select.select([process.stdout], [], [], t) returns the stream: the kernel
\* pipe holds bytes or is at end of file (the TextIOWrapper buffer is not seen)
SelectReady(c) == c.os # <<>> \/ c.partial = "os" \/ c.eof

EofLine == Line("eof", 0, "", "none", FALSE, "")
BlockedLine == Line("blocked", 0, "", "none", FALSE, "")

\* process.stdout.readline(): the next buffered line; with none buffered one
\* read of the kernel pipe takes all it holds.  "blocked": no complete line
\* and no end of file.
ReadLine(c) ==
    IF c.py # <<>> THEN [line |-> Head(c.py), c |-> [c EXCEPT !.py = Tail(c.py)]]
    ELSE IF c.os # <<>>
         THEN [line |-> Head(c.os),
               c |-> [c EXCEPT !.py = Tail(c.os), !.os = <<>>,
                               !.partial = IF c.partial = "os" THEN "py" ELSE c.partial]]
    ELSE IF c.eof
         THEN (IF c.partial # "none"
               THEN [line |-> TextLine, c |-> [c EXCEPT !.partial = "none"]]
               ELSE [line |-> EofLine, c |-> c])
    ELSE [line |-> BlockedLine,
          c |-> [c EXCEPT !.partial = IF c.partial = "os" THEN "py" ELSE c.partial]]


\* what a child may write in one write: a first line and up to MaxBurst - 1
\* lines that follow it
Bursts(heads, tails) ==
    UNION {{<<h>> \o rest : h \in heads, rest \in [1..k -> tails]} : k \in 0..(MaxBurst - 1)}

\* the child can write: it lives, its stdout is open with no line left
\* unterminated, and the client has read all it wrote before (a child of the
\* model writes again only then)
ChildCanWrite(c) ==
    /\ c.held /\ c.alive /\ ~c.eof /\ c.partial = "none"
    /\ c.os = <<>> /\ c.py = <<>>

\* the child's end of the pipe after it wrote burst (nothing for <<>>)
Written(c, burst) == IF burst = <<>> THEN c ELSE [c EXCEPT !.os = burst]


(***************************************************************************)
(* The handshake read loop of activate_server (mcp_client.py 616-671).     *)
(* st is the loop's local state: init_done, init_ok ("result" seen),       *)
(* roots_served and sent, the messages written to the child; exc: an      *)
(* exception left the loop; asked: the roots/list requests read.  wok says *)
(* whether a write to the child's stdin succeeds.                          *)
(***************************************************************************)
HsInit == [init_done |-> FALSE, init_ok |-> FALSE, roots_served |-> FALSE,
           sent |-> <<InitRequest>>, exc |-> FALSE, asked |-> 0]

\* a loop body that sends roots/list_changed for any initialize response
HsStepNotifyAlways(line, wok, roots, st) ==
    IF line.t \in {"blank", "text"} THEN st
    ELSE IF line.t = "obj" /\ line.method = "roots/list" /\ line.id # 0
         THEN (IF wok
               THEN [st EXCEPT !.sent = Append(@, RootsReply(line.id, roots)),
                               !.roots_served = TRUE, !.asked = @ + 1]
               ELSE [st EXCEPT !.asked = @ + 1])
    ELSE IF line.t # "obj" THEN [st EXCEPT !.exc = TRUE]
    ELSE IF line.id = InitId /\ line.body \in {"result", "error"}
         THEN [st EXCEPT !.init_done = TRUE,
                         !.init_ok = (line.body = "result"),
                         !.sent = IF wok THEN Append(@, ListChanged) ELSE @]
    ELSE st

\* the body of the loop for one line that was read (lines 630-671)
HsStep(line, wok, roots, st) ==
    IF line.t \in {"blank", "text"} THEN st
    ELSE IF line.t = "obj" /\ line.method = "roots/list" /\ line.id # 0
         THEN (IF wok
               THEN [st EXCEPT !.sent = Append(@, RootsReply(line.id, roots)),
                               !.roots_served = TRUE, !.asked = @ + 1]
               ELSE [st EXCEPT !.asked = @ + 1])
    ELSE IF line.t # "obj" THEN [st EXCEPT !.exc = TRUE]
    ELSE IF line.id = InitId /\ line.body \in {"result", "error"}
         THEN [st EXCEPT !.init_done = TRUE,
                         !.init_ok = (line.body = "result"),
                         !.sent = IF line.body = "result" /\ wok
                                  THEN Append(@, ListChanged) ELSE @]
    ELSE st


(***************************************************************************)
(* Return values.  activate_server returns a bool, execute_tool a dict     *)
(* ({"error": ...} or the result), list_tools a list, or None when it      *)
(* falls off its end.                                                      *)
(***************************************************************************)
Ret(kind, val) == [kind |-> kind, val |-> val]
RetTrue  == Ret("bool", "true")
RetFalse == Ret("bool", "false")
RetNone  == Ret("none", "")
RetEmptyList == Ret("list", "")
ErrNoActive  == Ret("error", "No active MCP server")
ErrNoProcess == Ret("error", "Active server process not found")
ErrNoResponse == Ret("error", "No response from MCP server")
ErrException(e) == Ret("error", e)

StderrText == "stderr-of-child"

VARIABLES
    disk,               \* the file config/mcp_servers.json
    servers,            \* self.servers: name -> definition
    active_server,      \* self.active_server
    server_processes,   \* self.server_processes: name -> child (index in children)
    children,           \* every child process spawned so far
    sessdirs,           \* the entries of the recordings root: name -> Entry
    pc,                 \* per task: where its call stands
    last,               \* the call that returned last, while nothing happened since
    overlap,            \* whether calls of different tasks may overlap
    mcp_config,         \* the file config/mcp_config.json of the agent
    llm,                \* whether mcp-use is importable and self._llm is set
    close_kind,         \* what close is on an mcp-use client: absent, a function, a coroutine function
    mcp_use_client,     \* self.mcp_use_client: an index in clients, 0: None
    mcp_agent,          \* self.mcp_agent: the index of the client it was given, 0: None
    clients,            \* every mcp-use client built so far
    websocket,          \* WebSocketClient.websocket: an index in conns, 0: None
    running,            \* WebSocketClient.running
    _stop,              \* WebSocketClient._stop
    backoff_seconds,    \* the local variable of run()
    wsrun,              \* where run() stands
    wsdisc,             \* where a disconnect() call stands
    conns               \* every connection websockets.connect returned

\* the agent's part and the websocket client's part of the state
agent_vars == <<mcp_config, llm, close_kind, mcp_use_client, mcp_agent, clients>>
ws_vars == <<websocket, running, _stop, backoff_seconds, wsrun, wsdisc, conns>>

vars == <<disk, servers, active_server, server_processes, children, sessdirs, pc, last, overlap,
          agent_vars, ws_vars>>

(***************************************************************************)
(* The agent configuration config/mcp_config.json and the mcp-use clients  *)
(* built from it.                                                          *)
(***************************************************************************)
\* an entry of "mcpServers": its command and its args, each argument kept
\* as its pieces between "/" (an entry with no "args" key has none)
AgentEntry(command, args) == [command |-> command, args |-> args]

\* the file: whether it exists, whether json.load can read it and whether
\* it has the key "mcpServers", and the entries under that key
AgentFile(entries) == [exists |-> TRUE, readable |-> TRUE, keyed |-> TRUE, servers |-> entries]
NoAgentFile == [exists |-> FALSE, readable |-> FALSE, keyed |-> FALSE, servers |-> <<>>]
UnreadableAgentFile == [NoAgentFile EXCEPT !.exists = TRUE]
UnkeyedAgentFile == [NoAgentFile EXCEPT !.exists = TRUE, !.readable = TRUE]

\* arg != 'stdio' (line 264)
NotStdio(arg) == arg # Text("stdio")

\* arg.startswith('/') (line 268)
StartsWithSlash(arg) == Len(arg) > 1 /\ arg[1] = ""
NotAbsolute(arg) == ~StartsWithSlash(arg)

\* a rewrite of the args that keeps the directories given before
KeepOldDirs(args, dir) == Append(SelectSeq(args, NotStdio), Str(dir))

\* lines 264-269: the args without 'stdio' and without absolute paths, and
\* the directory appended
RebindArgs(args, dir) ==
    Append(SelectSeq(SelectSeq(args, NotStdio), NotAbsolute), Str(dir))

\* _update_mcp_config_with_recordings_dir(base_dir) (lines 244-277): the
\* file afterwards.  It is rewritten only if it can be read and has a
\* filesystem entry.
UpdateMcpConfig(f, dir) ==
    IF f.exists /\ f.readable /\ f.keyed /\ "filesystem" \in DOMAIN f.servers
    THEN [f EXCEPT !.servers["filesystem"].args = RebindArgs(@, dir)]
    ELSE f

\* _create_default_config (lines 323-345)
DefaultAgentFile ==
    AgentFile([n \in {"filesystem"} |->
        AgentEntry("npx", <<Text("-y"), Text("server-filesystem"), Str(RecordingsDir)>>)])

\* an mcp-use client: the entries it was built from, and whether it has
\* been closed
AgentClient(entries) == [config |-> entries, open |-> TRUE, closing |-> FALSE]

\* MCPUseClient.from_config_file raises unless the file holds a document
CanBuild(f) == f.exists /\ f.readable

\* how close can be defined on an mcp-use client (lines 497-510): "absent":
\* hasattr is false; "function": close() closes the client when called;
\* "coroutine": close() returns a coroutine that closes it when run
CloseKinds == {"absent", "function", "coroutine"}

\* _initialize_mcp_use (lines 157-242) for a client that has an LLM: the
\* file and the clients afterwards, and the client held (0: none, the
\* construction raised)
InitializeMcpUse(f, built) ==
    LET g == IF f.exists THEN UpdateMcpConfig(f, RecordingsDir) ELSE DefaultAgentFile
    IN  IF CanBuild(g)
        THEN [file |-> g, clients |-> Append(built, AgentClient(g.servers)),
              client |-> Len(built) + 1]
        ELSE [file |-> g, clients |-> built, client |-> 0]

\* no LLM is configured: the client has no agent
NoAgent ==
    /\ mcp_config = NoAgentFile
    /\ llm = FALSE
    /\ close_kind = "absent"
    /\ mcp_use_client = 0
    /\ mcp_agent = 0
    /\ clients = <<>>

\* where a coroutine of the websocket client stands, and the connection it
\* is dealing with (0: none)
At(at, conn) == [at |-> at, conn |-> conn]

\* WebSocketClient() (lines 13-20)
NoWebSocket ==
    /\ websocket = 0
    /\ running = FALSE
    /\ _stop = FALSE
    /\ backoff_seconds = 2
    /\ wsrun = At("not_started", 0)
    /\ wsdisc = At("idle", 0)
    /\ conns = <<>>

Idle == [at |-> "idle", op |-> "", name |-> "", sid |-> "", child |-> 0,
         roots |-> <<>>, st |-> HsInit, was |-> NoServer, todo |-> <<>>]

\* the record of a call: op, name and sid (the session id given), the task,
\* was (active_server when it began), ret (what it returned), path (the
\* return statement it took),
\* child (the child it dealt with), dir (the directory in that child's
\* argv), sent (what it wrote to the child), line (the line a tool call
\* read, or the line at which a handshake raised), logged (the stderr text
\* it logged), and of a handshake: init_done, init_ok (the initialize
\* response read last carried a result),
\* deadline (the loop ended with select returning nothing), asked (the
\* roots/list requests read) and unread (the lines left in the pipe)
NoCall == [op |-> "", task |-> 0, name |-> "", sid |-> "", ret |-> RetNone, path |-> "",
           child |-> 0, dir |-> <<>>, sent |-> <<>>, line |-> NoLine, logged |-> "",
           init_done |-> FALSE, init_ok |-> FALSE, deadline |-> FALSE, asked |-> 0,
           unread |-> <<>>, was |-> NoServer]

EmptyMap == [n \in {} |-> 0]

\* a del that removes nothing
KeepEntry(d, k) == d

\* an assignment that is lost
PutNothing(d, k, v) == d

\* del d[k]
Del(d, k) == [n \in DOMAIN d \ {k} |-> d[n]]
\* d[k] = v
Put(d, k, v) == [n \in DOMAIN d \cup {k} |-> IF n = k THEN v ELSE d[n]]

\* the recordings root holds one session directory at the start
InitDirs == {[n \in {"S1"} |-> Entry(1, TRUE)]}

Init ==
    /\ disk = NoFile
    /\ servers = DefaultServers
    /\ active_server = NoServer
    /\ server_processes = EmptyMap
    /\ children = <<>>
    /\ sessdirs \in InitDirs
    /\ pc = [t \in Tasks |-> Idle]
    /\ last = NoCall
    /\ overlap = FALSE
    /\ NoAgent /\ NoWebSocket

\* a blocking call never returned: the thread, and with it every task, stands
Hung == \E t \in Tasks : pc[t].at = "hung"

\* task t may run: no other task is inside a call, or only suspended in
\* deactivate_server's sleep when calls may overlap
CanRun(t) ==
    /\ ~Hung
    /\ \A u \in Tasks \ {t} : pc[u].at = "idle" \/ (overlap /\ pc[u].at = "sleep")

\* task t may start a call; calls that never overlap all come from task 1
CanStart(t) == pc[t].at = "idle" /\ CanRun(t) /\ (overlap \/ t = 1)


\* the record of a call that ends
Done(op, t, name, was) ==
    [NoCall EXCEPT !.op = op, !.task = t, !.name = name, !.was = was]

\* CPython drops a Popen object, closing its pipes, when neither the process
\* table nor the local variable of a call in progress refers to it
Collect(ch, procs, pcs) ==
    [i \in DOMAIN ch |->
        IF /\ ch[i].held
           /\ ~(\E n \in DOMAIN procs : procs[n] = i)
           /\ ~(\E t \in Tasks : pcs[t].at # "idle" /\ pcs[t].child = i)
        THEN Dropped(ch[i]) ELSE ch[i]]

\* a deactivation that neither kills the child nor clears the registry
SkipDeactivate(cid) ==
    [ok |-> TRUE, children |-> children, procs |-> server_processes,
     active |-> active_server]

\* a deactivation that does not escalate to kill
NoKill(c) == c

\* a cleanup that leaves the slot and the process entry as they are
KeepSlot(procs, active) == [procs |-> procs, active |-> active]

\* process.terminate(): SIGTERM, unless the process is known to have exited
Terminate(c) == IF c.alive THEN [c EXCEPT !.sig = "term"] ELSE c

\* if process.poll() is None: process.kill()
KillIfAlive(c) == IF c.alive THEN [Exited(c) EXCEPT !.sig = "kill"] ELSE c

(***************************************************************************)
(* deactivate_server (lines 694-712), cut at await asyncio.sleep(0.1).     *)
(***************************************************************************)
\* lines 696-703: up to the sleep
DeactivateBegin(t) ==
    /\ CanStart(t)
    /\ UNCHANGED <<agent_vars, ws_vars, disk, servers, sessdirs, overlap>>
    /\ IF active_server = NoServer
       THEN /\ last' = [Done("deactivate_server", t, "", active_server) EXCEPT !.path = "noop"]
            /\ UNCHANGED <<active_server, server_processes, children, pc>>
       ELSE IF active_server \in DOMAIN server_processes
       THEN LET cid == server_processes[active_server]
            IN  /\ children' = [children EXCEPT ![cid] = Terminate(@)]
                /\ pc' = [pc EXCEPT ![t] = [Idle EXCEPT !.at = "sleep", !.op = "deactivate_server",
                                                        !.child = cid, !.was = active_server]]
                /\ last' = NoCall
                /\ UNCHANGED <<active_server, server_processes>>
       ELSE /\ active_server' = NoServer
            /\ last' = [Done("deactivate_server", t, "", active_server) EXCEPT !.path = "no_process"]
            /\ UNCHANGED <<server_processes, children, pc>>

\* lines 704-712 after the sleep: kill, del server_processes[active_server],
\* active_server = None.  ok is false when the del raises KeyError.
AfterSleep(cid) ==
    LET ok == active_server \in DOMAIN server_processes
    IN  [ok |-> ok,
         children |-> [children EXCEPT ![cid] = KillIfAlive(@)],
         procs |-> IF ok THEN Del(server_processes, active_server) ELSE server_processes,
         active |-> IF ok THEN NoServer ELSE active_server]

DeactivateResume(t) ==
    /\ pc[t].at = "sleep" /\ pc[t].op = "deactivate_server"
    /\ CanRun(t)
    /\ LET a == AfterSleep(pc[t].child)
       IN  /\ server_processes' = a.procs
           /\ active_server' = a.active
           /\ pc' = [pc EXCEPT ![t] = Idle]
           /\ children' = Collect(a.children, a.procs, pc')
           /\ last' = [Done("deactivate_server", t, "", pc[t].was) EXCEPT
                          !.path = IF a.ok THEN "done" ELSE "raised",
                          !.child = pc[t].child]
    /\ UNCHANGED <<agent_vars, ws_vars, disk, servers, sessdirs, overlap>>

(***************************************************************************)
(* activate_server (lines 522-692).                                        *)
(***************************************************************************)
\* how a freshly spawned child starts: "raise": Popen raises;
\* "exit_before_poll": it has exited when polled after the 0.5 s sleep;
\* "exit_before_write": it exits between the poll and the write of
\* initialize; "stdin_closed": it lives but has closed its stdin;
\* "run": it is there to read the initialize request
Starts == {"raise", "exit_before_poll", "exit_before_write", "stdin_closed", "run"}

\* a command line with no directory appended
BuildCmdBare(server_name, server, target) ==
    <<Text(server.command)>> \o [i \in 1..Len(server.args) |-> Text(server.args[i])]

\* cmd = [server.command] + server.args, and for the filesystem server the
\* resolved directory appended (lines 541-558)
BuildCmd(server_name, server, target) ==
    LET cmd == <<Text(server.command)>> \o
               [i \in 1..Len(server.args) |-> Text(server.args[i])]
    IN  IF server_name = "filesystem" THEN Append(cmd, Str(target)) ELSE cmd

\* lines 539-612: resolve and create the directory, spawn, poll, write the
\* initialize request.  ch0 are the children before the spawn.
Spawn(t, name, sid, order, start, ch0, was) ==
    LET isfs == name = "filesystem"
        target == ResolveSessionDir(sessdirs, order, sid)
        cid == Len(ch0) + 1
        fresh == NewChild(name, BuildCmd(name, servers[name], target), StderrText)
        allowed_base == IF isfs THEN target ELSE Cwd
        done == Done("activate_server", t, name, was)
        fail(path, c, logged) ==
            /\ pc' = [pc EXCEPT ![t] = Idle]
            /\ children' = Collect(Append(ch0, c), server_processes', pc')
            /\ last' = [done EXCEPT !.ret = RetFalse, !.path = path, !.child = cid,
                                    !.dir = ChildDir(c), !.sid = sid,
                                    !.logged = logged]
    IN  /\ sessdirs' = IF isfs THEN Mkdir(sessdirs, target, Now) ELSE sessdirs
        /\ CASE start = "raise" ->
                  /\ pc' = [pc EXCEPT ![t] = Idle]
                  /\ children' = Collect(ch0, server_processes', pc')
                  /\ last' = [done EXCEPT !.ret = RetFalse, !.path = "spawn_raised",
                                          !.sid = sid]
             [] start = "exit_before_poll" -> fail("poll_exit", Exited(fresh), fresh.stderr)
             [] start = "exit_before_write" -> fail("write_raised", Exited(fresh), "")
             [] start = "stdin_closed" ->
                  fail("write_raised", Terminate([fresh EXCEPT !.stdin = FALSE]), "")
             [] OTHER ->
                  /\ pc' = [pc EXCEPT ![t] = [Idle EXCEPT !.at = "handshake",
                                !.op = "activate_server", !.name = name,
                                !.sid = sid, !.child = cid, !.roots = BuildRoots(allowed_base),
                                !.was = was]]
                  /\ children' = Collect(Append(ch0, fresh), server_processes', pc')
                  /\ last' = NoCall

\* a check that lets every definition pass
NeverDisabled(server) == FALSE

\* if not server.enabled (line 531)
Disabled(server) == ~server.enabled

\* the inputs of a spawn: order is an order os.scandir may enumerate in; the
\* session id matters to the filesystem server only
SpawnInputs(name, sid, order) ==
    /\ order \in ScanOrders(sessdirs)
    /\ name # "filesystem" => sid = NoSession

\* lines 526-537, and the spawn when no server is active
ActivateBegin(t, name, sid, order, start) ==
    /\ CanStart(t)
    /\ UNCHANGED <<agent_vars, ws_vars, disk, servers, overlap>>
    /\ IF name \notin DOMAIN servers
       THEN /\ sid = NoSession /\ start = "run" /\ order \in ScanOrders(sessdirs)
            /\ last' = [Done("activate_server", t, name, active_server) EXCEPT
                           !.ret = RetFalse, !.path = "not_found"]
            /\ UNCHANGED <<active_server, server_processes, children, sessdirs, pc>>
       ELSE IF Disabled(servers[name])
       THEN /\ sid = NoSession /\ start = "run" /\ order \in ScanOrders(sessdirs)
            /\ last' = [Done("activate_server", t, name, active_server) EXCEPT
                           !.ret = RetFalse, !.path = "disabled"]
            /\ UNCHANGED <<active_server, server_processes, children, sessdirs, pc>>
       ELSE IF active_server # NoServer /\ active_server \in DOMAIN server_processes
       THEN LET cid == server_processes[active_server]
            IN  /\ Len(children) < MaxSpawn
                /\ start = "run" /\ order \in ScanOrders(sessdirs)
                /\ name # "filesystem" => sid = NoSession
                /\ children' = [children EXCEPT ![cid] = Terminate(@)]
                /\ pc' = [pc EXCEPT ![t] = [Idle EXCEPT !.at = "sleep", !.op = "activate_server",
                                                        !.name = name, !.sid = sid,
                                                        !.child = cid, !.was = active_server]]
                /\ last' = NoCall
                /\ UNCHANGED <<active_server, server_processes, sessdirs>>
       ELSE /\ Len(children) < MaxSpawn
            /\ SpawnInputs(name, sid, order)
            /\ active_server' = NoServer
            /\ UNCHANGED server_processes
            /\ Spawn(t, name, sid, order, start, children, active_server)

\* deactivate_server resumes inside activate_server, then the spawn
ActivateResume(t, order, start) ==
    /\ pc[t].at = "sleep" /\ pc[t].op = "activate_server"
    /\ CanRun(t)
    /\ UNCHANGED <<agent_vars, ws_vars, disk, servers, overlap>>
    /\ LET a == AfterSleep(pc[t].child)
       IN  /\ server_processes' = a.procs
           /\ active_server' = a.active
           /\ IF ~a.ok
              THEN /\ start = "run" /\ order \in ScanOrders(sessdirs)
                   /\ pc' = [pc EXCEPT ![t] = Idle]
                   /\ children' = Collect(a.children, a.procs, pc')
                   /\ last' = [Done("activate_server", t, pc[t].name, pc[t].was)
                                  EXCEPT !.path = "raised", !.ret = RetNone]
                   /\ UNCHANGED sessdirs
              ELSE /\ Len(children) < MaxSpawn
                   /\ SpawnInputs(pc[t].name, pc[t].sid, order)
                   /\ Spawn(t, pc[t].name, pc[t].sid, order, start, a.children, pc[t].was)


\* lines 673-682: the loop was left without an exception
HsFinish(t, ch, deadline) ==
    LET cid == pc[t].child
        c == ch[cid]
        done == [Done("activate_server", t, pc[t].name, pc[t].was) EXCEPT
                    !.child = cid, !.dir = ChildDir(c), !.sid = pc[t].sid,
                    !.sent = pc[t].st.sent,
                    !.init_done = pc[t].st.init_done, !.init_ok = pc[t].st.init_ok,
                    !.deadline = deadline,
                    !.asked = pc[t].st.asked, !.unread = c.py \o c.os]
    IN  /\ pc' = [pc EXCEPT ![t] = Idle]
        /\ IF ~c.alive
           THEN /\ last' = [done EXCEPT !.ret = RetFalse, !.path = "exited",
                                        !.logged = c.stderr]
                /\ UNCHANGED <<active_server, server_processes>>
           ELSE /\ server_processes' = Put(server_processes, pc[t].name, cid)
                /\ active_server' = pc[t].name
                /\ last' = [done EXCEPT !.ret = RetTrue,
                               !.path = IF pc[t].st.init_done THEN "initialized"
                                        ELSE "no_init_response"]
        /\ children' = Collect(ch, server_processes', pc')

\* lines 684-688: an exception inside the try of the handshake
HsRaised(t, ch, st, line) ==
    LET cid == pc[t].child
    IN  /\ pc' = [pc EXCEPT ![t] = Idle]
        /\ last' = [Done("activate_server", t, pc[t].name, pc[t].was) EXCEPT
                       !.ret = RetFalse, !.path = "hs_raised", !.child = cid,
                       !.dir = ChildDir(ch[cid]), !.sid = pc[t].sid, !.sent = st.sent,
                       !.init_done = st.init_done, !.init_ok = st.init_ok,
                       !.asked = st.asked, !.line = line,
                       !.unread = ch[cid].py \o ch[cid].os]
        /\ UNCHANGED <<active_server, server_processes>>
        /\ children' = Collect([ch EXCEPT ![cid] = Terminate(@)], server_processes', pc')

\* one iteration of the loop in which select returns the stream (622-671):
\* the child writes burst while the client waits in select, or (burst = <<>>)
\* the stream is readable as it is
HsRead(t, burst) ==
    /\ pc[t].at = "handshake" /\ ~Hung
    /\ IF burst = <<>> THEN SelectReady(children[pc[t].child])
       ELSE /\ ChildCanWrite(children[pc[t].child])
            /\ Len(pc[t].st.sent) < MaxSent /\ pc[t].st.asked < MaxSent
    /\ UNCHANGED <<agent_vars, ws_vars, disk, servers, sessdirs, overlap>>
    /\ LET cid == pc[t].child
           r == ReadLine(Written(children[cid], burst))
           ch == [children EXCEPT ![cid] = r.c]
           st2 == HsStep(r.line, r.c.stdin, pc[t].roots, pc[t].st)
       IN  IF r.line.t = "blocked"
           THEN /\ pc' = [pc EXCEPT ![t].at = "hung"]
                /\ children' = ch
                /\ UNCHANGED <<active_server, server_processes, last>>
           ELSE IF r.line.t = "eof" THEN HsFinish(t, ch, FALSE)
           ELSE IF st2.exc THEN HsRaised(t, ch, st2, r.line)
           ELSE /\ pc' = [pc EXCEPT ![t].st = st2]
                /\ children' = ch
                /\ UNCHANGED <<active_server, server_processes, last>>

\* select returns nothing: the child wrote nothing more up to the deadline.
\* (The deadline is taken to fall when the kernel pipe is empty; a deadline
\* that passes with bytes still in the pipe leaves them there as a write
\* between calls does.)
HsTimeout(t) ==
    /\ pc[t].at = "handshake" /\ ~Hung
    /\ ~SelectReady(children[pc[t].child])
    /\ UNCHANGED <<agent_vars, ws_vars, disk, servers, sessdirs, overlap>>
    /\ HsFinish(t, children, TRUE)

(***************************************************************************)
(* The children.  A child acts while the client waits for it in the        *)
(* handshake or in a tool call, and between calls while it is the recorded *)
(* child of the active server.                                             *)
(***************************************************************************)
\* the phase the client is in with child i: "handshake", "awaiting" (a
\* tools/call or tools/list request was written), "between" (calls), or "none"
Phase(i) ==
    IF \E t \in Tasks : pc[t].at \in {"handshake", "awaiting"} /\ pc[t].child = i
    THEN pc[CHOOSE t \in Tasks : pc[t].at \in {"handshake", "awaiting"} /\ pc[t].child = i].at
    ELSE IF /\ \A t \in Tasks : pc[t].at = "idle"
            /\ \E n \in DOMAIN server_processes : server_processes[n] = i
         THEN "between"
    ELSE "none"

ChildActs(i) ==
    /\ ~Hung
    /\ i \in DOMAIN children
    /\ children[i].held /\ children[i].alive
    /\ Phase(i) # "none"

\* the child has not yet closed a stream nor left a line unterminated (a
\* child of the model misbehaves in at most one of these ways), and the
\* client has read all it wrote
Plain(c) ==
    /\ c.alive /\ c.stdin /\ ~c.eof /\ c.partial = "none"
    /\ c.os = <<>> /\ c.py = <<>>

\* between calls the child of the active server writes a burst of lines
\* that no call waits for
ChildWrites(i, burst) ==
    /\ ChildActs(i)
    /\ Phase(i) = "between"
    /\ ChildCanWrite(children[i])
    /\ burst \in Bursts(LateLines, LateTails)
    /\ children' = [children EXCEPT ![i] = Written(@, burst)]
    /\ last' = NoCall
    /\ UNCHANGED <<agent_vars, ws_vars, disk, servers, active_server, server_processes, sessdirs, pc, overlap>>

\* the child writes the beginning of a line and no newline
ChildWritesPartial(i) ==
    /\ ChildActs(i)
    /\ Plain(children[i])
    /\ children' = [children EXCEPT ![i].partial = "os"]
    /\ last' = NoCall
    /\ UNCHANGED <<agent_vars, ws_vars, disk, servers, active_server, server_processes, sessdirs, pc, overlap>>

\* the child exits
ChildExits(i) ==
    /\ ~Hung
    /\ i \in DOMAIN children
    /\ children[i].held /\ children[i].alive /\ children[i].partial = "none"
    /\ children' = [children EXCEPT ![i] = Exited(@)]
    /\ last' = NoCall
    /\ UNCHANGED <<agent_vars, ws_vars, disk, servers, active_server, server_processes, sessdirs, pc, overlap>>

\* the child closes its stdout and lives on
ChildClosesStdout(i) ==
    /\ ChildActs(i)
    /\ Plain(children[i])
    /\ children' = [children EXCEPT ![i].eof = TRUE]
    /\ last' = NoCall
    /\ UNCHANGED <<agent_vars, ws_vars, disk, servers, active_server, server_processes, sessdirs, pc, overlap>>

\* the child closes its stdin and lives on
ChildClosesStdin(i) ==
    /\ ChildActs(i)
    /\ Plain(children[i])
    /\ children' = [children EXCEPT ![i].stdin = FALSE]
    /\ last' = NoCall
    /\ UNCHANGED <<agent_vars, ws_vars, disk, servers, active_server, server_processes, sessdirs, pc, overlap>>

(***************************************************************************)
(* execute_tool (lines 714-755).                                           *)
(***************************************************************************)
\* a return that loses what the line carried
LosePayload(line) == ErrNoResponse

\* lines 745-751 and the except of 753-755: what execute_tool returns for a
\* line it has read
ExecuteResult(line) ==
    CASE line.t \in {"blank", "text"} -> ErrException("JSONDecodeError")
      [] line.t = "nonobj" -> ErrException("TypeError")
      [] line.body = "error" -> Ret("error", line.val)
      [] line.body = "result" -> Ret("result", line.val)
      [] OTHER -> Ret("result", "{}")

\* lines 716-738: the checks and the write of the tools/call request
ExecuteBegin(t) ==
    /\ CanStart(t)
    /\ UNCHANGED <<agent_vars, ws_vars, disk, servers, active_server, server_processes, children, sessdirs, overlap>>
    /\ LET done == Done("execute_tool", t, "", active_server)
       IN  IF active_server = NoServer
           THEN /\ last' = [done EXCEPT !.ret = ErrNoActive, !.path = "no_active"]
                /\ UNCHANGED pc
           ELSE IF active_server \notin DOMAIN server_processes
           THEN /\ last' = [done EXCEPT !.ret = ErrNoProcess, !.path = "no_process"]
                /\ UNCHANGED pc
           ELSE LET cid == server_processes[active_server]
                IN  IF ~children[cid].stdin
                    THEN /\ last' = [done EXCEPT !.ret = ErrException("BrokenPipeError"),
                                                 !.path = "broken_pipe", !.child = cid]
                         /\ UNCHANGED pc
                    ELSE /\ pc' = [pc EXCEPT ![t] = [Idle EXCEPT !.at = "awaiting",
                                      !.op = "execute_tool", !.child = cid,
                                      !.st = [HsInit EXCEPT !.sent = <<CallRequest>>],
                                      !.was = active_server]]
                         /\ last' = NoCall

\* lines 740-755: response_line = process.stdout.readline() and the return.
\* No select precedes the readline: with no complete line to read and the
\* child's stdout open it blocks; "hung" is the call in which the child
\* never completes a line, so that the readline never returns.  burst is
\* what the child writes while the call waits (<<>>: nothing).
ExecuteRead(t, burst) ==
    /\ pc[t].at = "awaiting" /\ pc[t].op = "execute_tool" /\ ~Hung
    /\ burst # <<>> => ChildCanWrite(children[pc[t].child])
    /\ UNCHANGED <<agent_vars, ws_vars, disk, servers, active_server, server_processes, sessdirs, overlap>>
    /\ LET cid == pc[t].child
           r == ReadLine(Written(children[cid], burst))
           done == [Done("execute_tool", t, "", pc[t].was) EXCEPT
                       !.child = cid, !.sent = pc[t].st.sent]
       IN  IF r.line.t = "blocked"
           THEN /\ pc' = [pc EXCEPT ![t].at = "hung"]
                /\ children' = [children EXCEPT ![cid] = r.c]
                /\ UNCHANGED last
           ELSE /\ pc' = [pc EXCEPT ![t] = Idle]
                /\ children' = [children EXCEPT ![cid] = r.c]
                /\ last' = IF r.line.t = "eof"
                           THEN [done EXCEPT !.ret = ErrNoResponse, !.path = "eof"]
                           ELSE [done EXCEPT !.ret = ExecuteResult(r.line), !.path = "line",
                                             !.line = r.line]

(***************************************************************************)
(* list_tools (lines 757-820).                                             *)
(***************************************************************************)
\* lines 797-806 and the except of 818-820: what list_tools returns for a
\* line it has read; after the elif it falls off its end and returns None
ListResult(line) ==
    CASE line.t \in {"blank", "text", "nonobj"} -> RetEmptyList
      [] line.body = "result" /\ line.tools -> Ret("list", line.val)
      [] line.body = "error" -> RetEmptyList
      [] OTHER -> RetNone

\* lines 768-773 and 811-817: the dead process is cleaned up
ClearSlot(procs, active) ==
    [procs |-> IF active \in DOMAIN procs THEN Del(procs, active) ELSE procs,
     active |-> NoServer]

\* lines 759-786: the checks, the liveness poll, the write of tools/list
ListBegin(t) ==
    /\ CanStart(t)
    /\ UNCHANGED <<agent_vars, ws_vars, disk, servers, sessdirs, overlap>>
    /\ LET done == Done("list_tools", t, "", active_server)
       IN  IF active_server = NoServer \/ active_server \notin DOMAIN server_processes
           THEN /\ last' = [done EXCEPT !.ret = RetEmptyList,
                               !.path = IF active_server = NoServer THEN "no_active"
                                        ELSE "no_process"]
                /\ UNCHANGED <<active_server, server_processes, children, pc>>
           ELSE LET cid == server_processes[active_server]
                    cleared == ClearSlot(server_processes, active_server)
                IN  IF ~children[cid].alive \/ ~children[cid].stdin
                    THEN /\ server_processes' = cleared.procs
                         /\ active_server' = cleared.active
                         /\ last' = [done EXCEPT !.ret = RetEmptyList, !.child = cid,
                                        !.path = IF ~children[cid].alive THEN "dead"
                                                 ELSE "broken_pipe"]
                         /\ UNCHANGED pc
                         /\ children' = Collect(children, server_processes', pc')
                    ELSE /\ pc' = [pc EXCEPT ![t] = [Idle EXCEPT !.at = "awaiting",
                                      !.op = "list_tools", !.child = cid,
                                      !.st = [HsInit EXCEPT !.sent = <<ListRequest>>],
                                      !.was = active_server]]
                         /\ last' = NoCall
                         /\ UNCHANGED <<active_server, server_processes, children>>

\* lines 790-806: select returned the stream; readline and the return.
\* burst is what the child writes while the call waits in select (<<>>:
\* nothing, the stream is readable as it is).
ListRead(t, burst) ==
    /\ pc[t].at = "awaiting" /\ pc[t].op = "list_tools" /\ ~Hung
    /\ IF burst = <<>> THEN SelectReady(children[pc[t].child])
       ELSE ChildCanWrite(children[pc[t].child])
    /\ UNCHANGED <<agent_vars, ws_vars, disk, servers, active_server, server_processes, sessdirs, overlap>>
    /\ LET cid == pc[t].child
           r == ReadLine(Written(children[cid], burst))
           done == [Done("list_tools", t, "", pc[t].was) EXCEPT
                       !.child = cid, !.sent = pc[t].st.sent]
       IN  IF r.line.t = "blocked"
           THEN /\ pc' = [pc EXCEPT ![t].at = "hung"]
                /\ children' = [children EXCEPT ![cid] = r.c]
                /\ UNCHANGED last
           ELSE /\ pc' = [pc EXCEPT ![t] = Idle]
                /\ children' = [children EXCEPT ![cid] = r.c]
                /\ last' = IF r.line.t = "eof"
                           THEN [done EXCEPT !.ret = RetEmptyList, !.path = "eof"]
                           ELSE [done EXCEPT !.ret = ListResult(r.line), !.path = "line",
                                             !.line = r.line]

\* lines 807-809: select returned nothing within 2 seconds
ListTimeout(t) ==
    /\ pc[t].at = "awaiting" /\ pc[t].op = "list_tools" /\ ~Hung
    /\ ~SelectReady(children[pc[t].child])
    /\ pc' = [pc EXCEPT ![t] = Idle]
    /\ last' = [Done("list_tools", t, "", pc[t].was) EXCEPT
                   !.ret = RetEmptyList, !.path = "timeout", !.child = pc[t].child,
                   !.sent = pc[t].st.sent]
    /\ UNCHANGED <<agent_vars, ws_vars, disk, servers, active_server, server_processes, children, sessdirs, overlap>>

(***************************************************************************)
(* get_server_info (lines 435-446) and the message router of main.py       *)
(* (process_message, and handle_electron_message with the same replies).   *)
(***************************************************************************)
\* get_server_info(): per definition its name, enabled and active
GetServerInfo ==
    [n \in DOMAIN servers |->
        [name |-> n, enabled |-> servers[n].enabled, active |-> n = active_server]]

\* the payload of the router's reply to the request served by call: success,
\* error ("": no "error" key) and result, the value passed on (RetNone: none).
\* A call that raised is answered by the except clause.
RouterReply(call) ==
    CASE call.path \in {"raised"} ->
            [success |-> FALSE, error |-> "KeyError", result |-> RetNone]
      [] call.op = "activate_server" ->
            [success |-> call.ret = RetTrue, error |-> "", result |-> RetNone]
      [] call.op = "deactivate_server" ->
            [success |-> TRUE, error |-> "", result |-> RetNone]
      [] OTHER ->
            [success |-> TRUE, error |-> "", result |-> call.ret]

(***************************************************************************)
(* The specification: calls run one at a time.                             *)
(***************************************************************************)
Names == DOMAIN DefaultServers \cup {UnknownName}

Next ==
    \/ \E t \in Tasks : DeactivateBegin(t)
    \/ \E t \in Tasks : DeactivateResume(t)
    \/ \E t \in Tasks, name \in Names, sid \in Sessions \cup {NoSession},
          order \in ScanOrders(sessdirs), start \in Starts :
          ActivateBegin(t, name, sid, order, start)
    \/ \E t \in Tasks, order \in ScanOrders(sessdirs), start \in Starts :
          ActivateResume(t, order, start)
    \/ \E t \in Tasks, burst \in Bursts(HsLines, HsTails) \cup {<<>>} : HsRead(t, burst)
    \/ \E t \in Tasks : HsTimeout(t)
    \/ \E t \in Tasks : ExecuteBegin(t)
    \/ \E t \in Tasks, burst \in Bursts(ReactLines, ReactTails) \cup {<<>>} : ExecuteRead(t, burst)
    \/ \E t \in Tasks : ListBegin(t)
    \/ \E t \in Tasks, burst \in Bursts(ReactLines, ReactTails) \cup {<<>>} : ListRead(t, burst)
    \/ \E t \in Tasks : ListTimeout(t)
    \/ \E i \in 1..MaxSpawn, burst \in Bursts(LateLines, LateTails) : ChildWrites(i, burst)
    \/ \E i \in 1..MaxSpawn : ChildWritesPartial(i)
    \/ \E i \in 1..MaxSpawn : ChildExits(i)
    \/ \E i \in 1..MaxSpawn : ChildClosesStdout(i)
    \/ \E i \in 1..MaxSpawn : ChildClosesStdin(i)

Spec == Init /\ [][Next]_vars

(***************************************************************************)
(* The registry of definitions and its file: add_server, remove_server and *)
(* update_server (lines 822-840), each with the save_config it calls, and  *)
(* the construction of a new client from the file.  A process may stop     *)
(* inside save_config; the client is then gone until one is constructed.   *)
(***************************************************************************)
Custom == MCPServerConfig("custom", "uvx", <<"tool">>, NoEnv, TRUE, "", "wrench")
Override == MCPServerConfig("filesystem", "node", <<"fs.js">>, NoEnv, FALSE, "mine", "disk")

\* the definitions given to add_server
AddInputs == {Custom, Override}

\* one keyword argument of update_server: key, and its value as a string or
\* a bool
Kw(key, str, bool) == [key |-> key, str |-> str, bool |-> bool]
UpdateInputs == {Kw("enabled", "", FALSE), Kw("name", "renamed", FALSE), Kw("colour", "red", FALSE)}

\* the files found at the first construction: none, an empty one, and
\* documents written by an earlier run
InitFiles ==
    {NoFile, File(NoDefs, FALSE), File(Document(DefaultServers), TRUE),
     File(Document([n \in {"filesystem", "custom"} |->
                       IF n = "custom" THEN Custom ELSE Override]), TRUE)}

\* if hasattr(server, key): setattr(server, key, value) (lines 837-839)
SetAttr(server, kw) ==
    CASE kw.key = "enabled" -> [server EXCEPT !.enabled = kw.bool]
      [] kw.key = "name"    -> [server EXCEPT !.name = kw.str]
      [] kw.key = "command" -> [server EXCEPT !.command = kw.str]
      [] OTHER -> server

Stopped == [Idle EXCEPT !.at = "stopped"]

\* what a registry operation leaves when its save_config runs on srv
Saved(op, name, srv, stopped, written) ==
    /\ written \subseteq DOMAIN srv
    /\ ~stopped => written = {}
    /\ disk' = SaveConfig(srv, stopped, written)
    /\ servers' = IF stopped THEN NoDefs ELSE srv
    /\ pc' = IF stopped THEN [t \in Tasks |-> Stopped] ELSE pc
    /\ last' = IF stopped THEN NoCall
               ELSE [Done(op, 1, name, active_server) EXCEPT !.path = "saved"]

\* an operation that returns without save_config
NotSaved(op, name, stopped, written) ==
    /\ ~stopped /\ written = {}
    /\ last' = [Done(op, 1, name, active_server) EXCEPT !.path = "absent"]
    /\ UNCHANGED <<disk, servers, pc>>

\* add_server(server_config) (lines 822-825)
AddServer(server_config, stopped, written) ==
    /\ CanStart(1)
    /\ Saved("add_server", server_config.name,
             Put(servers, server_config.name, server_config), stopped, written)
    /\ UNCHANGED <<agent_vars, ws_vars, active_server, server_processes, children, sessdirs, overlap>>

\* remove_server(name) (lines 827-831)
RemoveServer(name, stopped, written) ==
    /\ CanStart(1)
    /\ IF name \in DOMAIN servers
       THEN Saved("remove_server", name, Del(servers, name), stopped, written)
       ELSE NotSaved("remove_server", name, stopped, written)
    /\ UNCHANGED <<agent_vars, ws_vars, active_server, server_processes, children, sessdirs, overlap>>

\* update_server(name, **kwargs) with one keyword argument (lines 833-840)
UpdateServer(name, kw, stopped, written) ==
    /\ CanStart(1)
    /\ IF name \in DOMAIN servers
       THEN Saved("update_server", name,
                  [servers EXCEPT ![name] = SetAttr(@, kw)], stopped, written)
       ELSE NotSaved("update_server", name, stopped, written)
    /\ UNCHANGED <<agent_vars, ws_vars, active_server, server_processes, children, sessdirs, overlap>>

\* MCPClient() (lines 47-60): a client is constructed from the file, in a
\* process that has none
Restart ==
    /\ \A t \in Tasks : pc[t].at \in {"idle", "stopped"}
    /\ servers' = Construct(disk)
    /\ active_server' = NoServer
    /\ server_processes' = EmptyMap
    /\ pc' = [t \in Tasks |-> Idle]
    /\ last' = Done("__init__", 1, "", NoServer)
    /\ UNCHANGED <<agent_vars, ws_vars, disk, children, sessdirs, overlap>>

InitRegistry ==
    /\ disk \in InitFiles
    /\ servers = Construct(disk)
    /\ active_server = NoServer
    /\ server_processes = EmptyMap
    /\ children = <<>>
    /\ sessdirs \in InitDirs
    /\ pc = [t \in Tasks |-> Idle]
    /\ last = Done("__init__", 1, "", NoServer)
    /\ overlap = FALSE
    /\ NoAgent /\ NoWebSocket

RegistryNames == DOMAIN DefaultServers \cup {"custom", UnknownName}

NextRegistry ==
    \/ \E c \in AddInputs, stopped \in BOOLEAN, written \in SUBSET RegistryNames :
          AddServer(c, stopped, written)
    \/ \E n \in RegistryNames, stopped \in BOOLEAN, written \in SUBSET RegistryNames :
          RemoveServer(n, stopped, written)
    \/ \E n \in RegistryNames, kw \in UpdateInputs, stopped \in BOOLEAN,
          written \in SUBSET RegistryNames :
          UpdateServer(n, kw, stopped, written)
    \/ Restart

SpecRegistry == InitRegistry /\ [][NextRegistry]_vars

(***************************************************************************)
(* The registry operations of a client that activates and deactivates      *)
(* servers: every save_config completes, the children answer the           *)
(* handshake.                                                              *)
(***************************************************************************)
NextLive ==
    \/ \E name \in RegistryNames, order \in ScanOrders(sessdirs) :
          ActivateBegin(1, name, NoSession, order, "run")
    \/ \E order \in ScanOrders(sessdirs) : ActivateResume(1, order, "run")
    \/ HsRead(1, <<InitResult>>)
    \/ HsTimeout(1)
    \/ DeactivateBegin(1)
    \/ DeactivateResume(1)
    \/ \E n \in RegistryNames : RemoveServer(n, FALSE, {})
    \/ \E n \in RegistryNames, kw \in UpdateInputs : UpdateServer(n, kw, FALSE, {})

SpecLive == InitRegistry /\ [][NextLive]_vars

(***************************************************************************)
(* add_mcp_server, remove_mcp_server and update_mcp_server of MCPService   *)
(* (mcp_service.py lines 207-242): each calls the client's operation and   *)
(* returns true, or false when that raised.  save_config can raise where   *)
(* it touches the file system.                                             *)
(***************************************************************************)
\* how a save_config ends: "ok"; "open": mkdir or open raises, the file is
\* as it was; "write": json.dump raises inside the with block
Saves == {"ok", "open", "write"}

\* the file after a save_config of srv that raises; written: the entries
\* that reached the truncated file before json.dump raised
SaveConfigRaises(f, srv, save, written) ==
    IF save = "open" THEN f ELSE File([n \in written |-> ToJson(srv[n])], FALSE)

\* MCPServerConfig(name=..., ..., enabled=True) (lines 211-219)
ServiceConfig(c) == [c EXCEPT !.enabled = TRUE]

\* the client's operation has set the registry to srv and calls save_config;
\* the wrapper returns true, or false from its except clause
ServiceSaves(op, name, srv, save, written) ==
    /\ written \subseteq DOMAIN srv
    /\ save # "write" => written = {}
    /\ servers' = srv
    /\ disk' = IF save = "ok" THEN SaveConfig(srv, FALSE, {})
               ELSE SaveConfigRaises(disk, srv, save, written)
    /\ last' = [Done(op, 1, name, active_server) EXCEPT
                   !.ret = IF save = "ok" THEN RetTrue ELSE RetFalse,
                   !.path = IF save = "ok" THEN "saved" ELSE "save_raised"]

\* the name is not configured: the client's operation returns at once
ServiceSkips(op, name, save, written) ==
    /\ save = "ok" /\ written = {}
    /\ last' = [Done(op, 1, name, active_server) EXCEPT !.ret = RetTrue, !.path = "absent"]
    /\ UNCHANGED <<disk, servers>>

AddMcpServer(c, save, written) ==
    /\ CanStart(1)
    /\ ServiceSaves("add_mcp_server", c.name, Put(servers, c.name, ServiceConfig(c)),
                    save, written)
    /\ UNCHANGED <<agent_vars, ws_vars, active_server, server_processes, children, sessdirs, pc, overlap>>

RemoveMcpServer(name, save, written) ==
    /\ CanStart(1)
    /\ IF name \in DOMAIN servers
       THEN ServiceSaves("remove_mcp_server", name, Del(servers, name), save, written)
       ELSE ServiceSkips("remove_mcp_server", name, save, written)
    /\ UNCHANGED <<agent_vars, ws_vars, active_server, server_processes, children, sessdirs, pc, overlap>>

UpdateMcpServer(name, kw, save, written) ==
    /\ CanStart(1)
    /\ IF name \in DOMAIN servers
       THEN ServiceSaves("update_mcp_server", name,
                         [servers EXCEPT ![name] = SetAttr(@, kw)], save, written)
       ELSE ServiceSkips("update_mcp_server", name, save, written)
    /\ UNCHANGED <<agent_vars, ws_vars, active_server, server_processes, children, sessdirs, pc, overlap>>

\* what has reached the file when json.dump raises: nothing, or one entry
PartialWrites == {{}, {"filesystem"}}

\* the names given to the wrappers: a built-in, an added one, an unknown one
ServiceNames == {"filesystem", "custom", UnknownName}

NextService ==
    \/ \E c \in AddInputs, save \in Saves, written \in PartialWrites :
          AddMcpServer(c, save, written)
    \/ \E n \in ServiceNames, save \in Saves, written \in PartialWrites :
          RemoveMcpServer(n, save, written)
    \/ \E n \in ServiceNames, kw \in UpdateInputs, save \in Saves,
          written \in PartialWrites :
          UpdateMcpServer(n, kw, save, written)

SpecService == InitRegistry /\ [][NextService]_vars

(***************************************************************************)
(* Calls of independent tasks on one event loop.  A task gets to run only  *)
(* when the running one suspends, which a call does at the sleep of        *)
(* deactivate_server alone.  The children here answer each request with    *)
(* its response, or stay silent.                                           *)
(***************************************************************************)
InitOverlap ==
    /\ disk = NoFile
    /\ servers = DefaultServers
    /\ active_server = NoServer
    /\ server_processes = EmptyMap
    /\ children = <<>>
    /\ sessdirs \in InitDirs
    /\ pc = [t \in Tasks |-> Idle]
    /\ last = NoCall
    /\ overlap = TRUE
    /\ NoAgent /\ NoWebSocket

NextOverlap ==
    \/ \E t \in Tasks : DeactivateBegin(t)
    \/ \E t \in Tasks : DeactivateResume(t)
    \/ \E t \in Tasks, name \in {"filesystem", "memory"}, order \in ScanOrders(sessdirs) :
          ActivateBegin(t, name, NoSession, order, "run")
    \/ \E t \in Tasks, order \in ScanOrders(sessdirs) : ActivateResume(t, order, "run")
    \/ \E t \in Tasks : HsRead(t, <<InitResult>>)
    \/ \E t \in Tasks : HsTimeout(t)
    \/ \E t \in Tasks : ExecuteBegin(t)
    \/ \E t \in Tasks, burst \in {<<CallResp>>, <<>>} : ExecuteRead(t, burst)
    \/ \E t \in Tasks : ListBegin(t)
    \/ \E t \in Tasks, burst \in {<<ListResp>>, <<>>} : ListRead(t, burst)
    \/ \E t \in Tasks : ListTimeout(t)

SpecOverlap == InitOverlap /\ [][NextOverlap]_vars

(***************************************************************************)
(* The resolution of the session directory on its own: the recordings root *)
(* holds any entries, and _resolve_session_dir is applied to them.         *)
(***************************************************************************)
EntryNames == Sessions \cup {"notes"}

\* the recordings roots: any of the names, each a directory or a plain file
RootContents ==
    UNION {[names -> {Entry(m, d) : m \in Mtimes, d \in BOOLEAN}] :
              names \in SUBSET EntryNames}

InitResolve ==
    /\ disk = NoFile
    /\ servers = DefaultServers
    /\ active_server = NoServer
    /\ server_processes = EmptyMap
    /\ children = <<>>
    /\ sessdirs \in RootContents
    /\ pc = [t \in Tasks |-> Idle]
    /\ last = NoCall
    /\ overlap = FALSE
    /\ NoAgent /\ NoWebSocket

\* _resolve_session_dir(session_id), os.scandir enumerating in order
ResolveCall(session_id, order) ==
    /\ last' = [NoCall EXCEPT !.op = "_resolve_session_dir", !.sid = session_id,
                              !.dir = ResolveSessionDir(sessdirs, order, session_id)]
    /\ UNCHANGED <<agent_vars, ws_vars, disk, servers, active_server, server_processes, children, sessdirs,
                   pc, overlap>>

\* the recordings root changes: an entry is written to (its mtime becomes m)
FsTouch(name, m) ==
    /\ name \in DOMAIN sessdirs /\ sessdirs[name].mtime # m
    /\ sessdirs' = [sessdirs EXCEPT ![name].mtime = m]
    /\ last' = NoCall
    /\ UNCHANGED <<agent_vars, ws_vars, disk, servers, active_server, server_processes, children, pc, overlap>>

NextResolve ==
    \/ \E session_id \in Sessions \cup {NoSession}, order \in ScanOrders(sessdirs) :
          ResolveCall(session_id, order)
    \/ \E name \in EntryNames, m \in Mtimes : FsTouch(name, m)

SpecResolve == InitResolve /\ [][NextResolve]_vars

(***************************************************************************)
(* The binding of the filesystem provider to a session: activations with   *)
(* any session id, of children that answer the handshake.                  *)
(***************************************************************************)
NextBind ==
    \/ \E sid \in Sessions \cup OddSessions \cup {NoSession}, order \in ScanOrders(sessdirs) :
          ActivateBegin(1, "filesystem", sid, order, "run")
    \/ \E order \in ScanOrders(sessdirs) : ActivateResume(1, order, "run")
    \/ \E burst \in {<<InitResult>>, <<RootsReq>>, <<RootsReq, InitResult>>} : HsRead(1, burst)
    \/ HsTimeout(1)
    \/ DeactivateBegin(1)
    \/ DeactivateResume(1)
    \/ \E sid \in Sessions \cup OddSessions \cup {NoSession}, order \in ScanOrders(sessdirs) :
          ResolveCall(sid, order)

SpecBind == Init /\ [][NextBind]_vars

(***************************************************************************)
(* close() (lines 70-93), cut at the await asyncio.sleep(0.1) of each      *)
(* process it closes.                                                      *)
(***************************************************************************)
\* the orders in which server_processes.items() may enumerate
ItemOrders(procs) == ScanOrders(procs)

\* lines 84-93: the mcp-use client is closed if it has a close that can be
\* awaited or that acts when called; the client and the agent are dropped
CloseMcpUse(built, client, kind) ==
    IF client # 0 /\ kind # "absent"
    THEN [built EXCEPT ![client].open = FALSE]
    ELSE built

\* lines 81-93: every process was dealt with
CloseEnd(t, ch, cid) ==
    /\ server_processes' = EmptyMap
    /\ UNCHANGED active_server    \* close() assigns nothing to self.active_server
    /\ pc' = [pc EXCEPT ![t] = Idle]
    /\ children' = Collect(ch, EmptyMap, pc')
    /\ clients' = CloseMcpUse(clients, mcp_use_client, close_kind)
    /\ mcp_use_client' = 0
    /\ mcp_agent' = 0
    /\ last' = [Done("close", t, "", active_server) EXCEPT !.path = "done", !.child = cid]

\* lines 73-76: terminate() on the first process, up to the sleep
CloseBegin(t, order) ==
    /\ CanStart(t)
    /\ order \in ItemOrders(server_processes)
    /\ IF order = <<>>
       THEN CloseEnd(t, children, 0)
       ELSE LET cid == server_processes[order[1]]
            IN  /\ children' = [children EXCEPT ![cid] = Terminate(@)]
                /\ pc' = [pc EXCEPT ![t] = [Idle EXCEPT !.at = "sleep", !.op = "close",
                                                        !.child = cid, !.todo = Tail(order),
                                                        !.was = active_server]]
                /\ last' = NoCall
                /\ UNCHANGED <<active_server, server_processes, clients, mcp_use_client,
                               mcp_agent>>
    /\ UNCHANGED <<ws_vars, mcp_config, llm, close_kind, disk, servers, sessdirs, overlap>>

\* lines 77-78 after the sleep: kill() if the process has not exited, then
\* the next process or the end
CloseResume(t) ==
    /\ pc[t].at = "sleep" /\ pc[t].op = "close"
    /\ CanRun(t)
    /\ LET killed == [children EXCEPT ![pc[t].child] = KillIfAlive(@)]
       IN  IF pc[t].todo = <<>>
           THEN CloseEnd(t, killed, pc[t].child)
           ELSE LET cid == server_processes[pc[t].todo[1]]
                IN  /\ children' = [killed EXCEPT ![cid] = Terminate(@)]
                    /\ pc' = [pc EXCEPT ![t].child = cid, ![t].todo = Tail(@)]
                    /\ last' = NoCall
                    /\ UNCHANGED <<active_server, server_processes, clients, mcp_use_client,
                                   mcp_agent>>
    /\ UNCHANGED <<ws_vars, mcp_config, llm, close_kind, disk, servers, sessdirs, overlap>>

\* the calls of a client that is closed in the end, its children answering
\* each request or exiting
NextClose ==
    \/ \E name \in {"filesystem", "memory"}, order \in ScanOrders(sessdirs) :
          ActivateBegin(1, name, NoSession, order, "run")
    \/ \E order \in ScanOrders(sessdirs) : ActivateResume(1, order, "run")
    \/ HsRead(1, <<InitResult>>)
    \/ HsTimeout(1)
    \/ DeactivateBegin(1)
    \/ DeactivateResume(1)
    \/ ExecuteBegin(1)
    \/ \E burst \in {<<CallResp>>, <<>>} : ExecuteRead(1, burst)
    \/ ListBegin(1)
    \/ \E burst \in {<<ListResp>>, <<>>} : ListRead(1, burst)
    \/ ListTimeout(1)
    \/ \E i \in 1..MaxSpawn : ChildExits(i)
    \/ \E order \in ItemOrders(server_processes) : CloseBegin(1, order)
    \/ CloseResume(1)

SpecClose == Init /\ [][NextClose]_vars

(***************************************************************************)
(* prepare_for_session (lines 485-520) of a client constructed with any    *)
(* agent configuration on disk, and the close tasks it schedules.          *)
(***************************************************************************)
\* the number of mcp-use clients built in a run
MaxClients == 3

Memory == AgentEntry("npx", <<Text("-y"), Text("server-memory"), Str(<<"var", "memory">>)>>)

\* the agent configurations found at construction: none, one that is not
\* JSON, one without "mcpServers", the default one, one with no filesystem
\* entry, and ones whose filesystem entry has no args, 'stdio', or
\* directories given earlier
InitAgentFiles ==
    {NoAgentFile, UnreadableAgentFile, UnkeyedAgentFile, DefaultAgentFile,
     AgentFile([n \in {"memory"} |-> Memory]),
     AgentFile([n \in {"filesystem", "memory"} |->
        IF n = "memory" THEN Memory ELSE AgentEntry("npx", <<>>)]),
     AgentFile([n \in {"filesystem", "memory"} |->
        IF n = "memory" THEN Memory
        ELSE AgentEntry("npx", <<Text("-y"), Text("server-filesystem"), Text("stdio"),
                                 Str(<<"recordings", "S1">>)>>)]),
     AgentFile([n \in {"filesystem"} |->
        AgentEntry("npx", <<Str(<<"old">>), Text("-y"), Text("server-filesystem"),
                            Str(<<"recordings">>), Text("stdio")>>)])}

\* MCPClient() with an LLM configured or not
InitAgent ==
    /\ disk = NoFile
    /\ servers = DefaultServers
    /\ active_server = NoServer
    /\ server_processes = EmptyMap
    /\ children = <<>>
    /\ sessdirs \in InitDirs
    /\ pc = [t \in Tasks |-> Idle]
    /\ overlap = FALSE
    /\ NoWebSocket
    /\ llm \in BOOLEAN
    /\ close_kind \in CloseKinds
    /\ \E f \in InitAgentFiles :
          IF llm
          THEN /\ mcp_config = InitializeMcpUse(f, <<>>).file
               /\ clients = InitializeMcpUse(f, <<>>).clients
               /\ mcp_use_client = InitializeMcpUse(f, <<>>).client
               /\ mcp_agent = InitializeMcpUse(f, <<>>).client
               /\ last = [Done("__init__", 1, "", NoServer) EXCEPT !.dir = RecordingsDir,
                                                                  !.path = "done"]
          ELSE /\ mcp_config = f
               /\ clients = <<>>
               /\ mcp_use_client = 0
               /\ mcp_agent = 0
               /\ last = [Done("__init__", 1, "", NoServer) EXCEPT !.path = "no_llm"]

\* lines 497-511: close() is called if it is a function, scheduled as a
\* task on the loop if it is a coroutine function, and skipped if absent
CloseExisting(built, client, kind) ==
    IF client = 0 \/ kind = "absent" THEN built
    ELSE IF kind = "function" THEN [built EXCEPT ![client].open = FALSE]
    ELSE [built EXCEPT ![client].closing = TRUE]

\* prepare_for_session(session_id); "failed": from_config_file raised and
\* the except clause logged it
PrepareForSession(session_id, order) ==
    /\ CanStart(1)
    /\ order \in ScanOrders(sessdirs)
    /\ Len(clients) < MaxClients
    /\ LET done == [Done("prepare_for_session", 1, "", active_server) EXCEPT !.sid = session_id]
           target == ResolveSessionDir(sessdirs, order, session_id)
           f == UpdateMcpConfig(mcp_config, target)
           closed == CloseExisting(clients, mcp_use_client, close_kind)
       IN  IF ~llm
           THEN /\ last' = [done EXCEPT !.path = "no_llm"]
                /\ UNCHANGED <<sessdirs, mcp_config, clients, mcp_use_client, mcp_agent>>
           ELSE /\ sessdirs' = Mkdir(sessdirs, target, Now)
                /\ mcp_config' = f
                /\ IF CanBuild(f)
                   THEN /\ clients' = Append(closed, AgentClient(f.servers))
                        /\ mcp_use_client' = Len(closed) + 1
                        /\ mcp_agent' = Len(closed) + 1
                        /\ last' = [done EXCEPT !.path = "done", !.dir = target]
                   ELSE /\ clients' = closed
                        /\ UNCHANGED <<mcp_use_client, mcp_agent>>
                        /\ last' = [done EXCEPT !.path = "failed", !.dir = target]
    /\ UNCHANGED <<ws_vars, llm, close_kind, disk, servers, active_server, server_processes,
                   children, pc, overlap>>

\* the loop runs the close task that was scheduled for client i
CloseTaskRuns(i) ==
    /\ i \in DOMAIN clients /\ clients[i].closing
    /\ \A t \in Tasks : pc[t].at \in {"idle", "sleep"}
    /\ clients' = [clients EXCEPT ![i].open = FALSE, ![i].closing = FALSE]
    /\ last' = NoCall
    /\ UNCHANGED <<ws_vars, mcp_config, llm, close_kind, mcp_use_client, mcp_agent, disk, servers,
                   active_server, server_processes, children, sessdirs, pc, overlap>>

NextAgent ==
    \/ \E session_id \in Sessions \cup OddSessions \cup {NoSession},
          order \in ScanOrders(sessdirs) : PrepareForSession(session_id, order)
    \/ \E i \in 1..MaxClients : CloseTaskRuns(i)
    \/ CloseBegin(1, <<>>)

SpecAgent == InitAgent /\ [][NextAgent]_vars

(***************************************************************************)
(* WebSocketClient (websocket_client.py): run() (lines 103-147) cut at its *)
(* awaits, connect() and disconnect() (lines 22-41), listen() (lines       *)
(* 73-97).  Nothing in the body of run()'s try raises: connect() and       *)
(* listen() catch every exception, so the except clauses of lines 138-143  *)
(* are never entered.                                                      *)
(***************************************************************************)
\* the number of connections websockets.connect returns in a run
MaxConns == 3

max_backoff == 10

\* what the websocket client leaves alone
ws_rest == <<disk, servers, active_server, server_processes, children, sessdirs, pc, last,
             overlap, agent_vars>>

\* lines 111 and 145-147: the test of the while loop, and what follows the
\* loop once a stop was requested: disconnect() if a websocket is held,
\* which awaits its close(); stop and ws are the values at the test
LoopTop(stop, ws) ==
    IF ~stop THEN At("connecting", 0)
    ELSE IF ws # 0 THEN At("final_close", ws)
    ELSE At("returned", 0)

\* run() goes to the top of its loop, or leaves it by break; r is
\* self.running at that point
RunGoesOn(stop, ws, r) ==
    /\ wsrun' = LoopTop(stop, ws)
    /\ conns' = IF LoopTop(stop, ws).at = "final_close" /\ conns[ws] = "open"
                THEN [conns EXCEPT ![ws] = "closing"] ELSE conns
    /\ running' = IF LoopTop(stop, ws).at = "final_close" THEN FALSE ELSE r
    /\ _stop' = stop

\* run() is started (lines 108-113): up to the await in connect()
RunStart ==
    /\ wsrun.at = "not_started"
    /\ backoff_seconds' = 2
    /\ RunGoesOn(_stop, websocket, running)
    /\ UNCHANGED <<websocket, wsdisc, ws_rest>>

\* websockets.connect returns a connection (lines 25-28, 122-125): the
\* client holds it, running is set, and run() listens on it
ConnectSucceeds ==
    /\ wsrun.at = "connecting"
    /\ Len(conns) < MaxConns
    /\ conns' = Append(conns, "open")
    /\ websocket' = Len(conns) + 1
    /\ running' = TRUE
    /\ backoff_seconds' = 2
    /\ wsrun' = At("listening", Len(conns) + 1)
    /\ UNCHANGED <<_stop, wsdisc, ws_rest>>

\* websockets.connect raises (lines 29-31, 114-119): break if a stop was
\* requested, else the sleep before the next attempt
ConnectFails ==
    /\ wsrun.at = "connecting"
    /\ IF _stop THEN RunGoesOn(TRUE, websocket, running)
       ELSE /\ wsrun' = At("retry_sleep", 0)
            /\ UNCHANGED <<conns, running, _stop>>
    /\ UNCHANGED <<websocket, backoff_seconds, wsdisc, ws_rest>>

\* asyncio.sleep(backoff_seconds) is over (lines 118-120)
RetrySleepEnds ==
    /\ wsrun.at = "retry_sleep"
    /\ backoff_seconds' = IF backoff_seconds * 2 < max_backoff THEN backoff_seconds * 2
                          ELSE max_backoff
    /\ RunGoesOn(_stop, websocket, running)
    /\ UNCHANGED <<websocket, wsdisc, ws_rest>>

\* the connection run() listens on is closed: the async for of listen()
\* ends, by ConnectionClosed (err: running is cleared, lines 92-94) or
\* silently; then lines 128-134
ListenEnds(err) ==
    /\ wsrun.at = "listening" /\ conns[wsrun.conn] = "closed"
    /\ IF _stop
       THEN /\ RunGoesOn(TRUE, websocket, IF err THEN FALSE ELSE running)
       ELSE /\ wsrun' = At("reconnect_sleep", 0)
            /\ running' = IF err THEN FALSE ELSE running
            /\ UNCHANGED <<conns, _stop>>
    /\ UNCHANGED <<websocket, backoff_seconds, wsdisc, ws_rest>>

\* asyncio.sleep(5) is over (line 134)
ReconnectSleepEnds ==
    /\ wsrun.at = "reconnect_sleep"
    /\ RunGoesOn(_stop, websocket, running)
    /\ UNCHANGED <<websocket, backoff_seconds, wsdisc, ws_rest>>

\* the close() awaited by run()'s own disconnect() has returned (lines
\* 39-41, 146-147): run() returns
FinalCloseEnds ==
    /\ wsrun.at = "final_close" /\ conns[wsrun.conn] = "closed"
    /\ websocket' = 0
    /\ wsrun' = At("returned", 0)
    /\ UNCHANGED <<running, _stop, backoff_seconds, wsdisc, conns, ws_rest>>

\* disconnect() is called by another task (lines 33-39): up to the await
\* of close()
Disconnect ==
    /\ wsdisc.at = "idle"
    /\ _stop' = TRUE
    /\ running' = FALSE
    /\ IF websocket # 0
       THEN /\ wsdisc' = At("closing", websocket)
            /\ conns' = IF conns[websocket] = "open"
                        THEN [conns EXCEPT ![websocket] = "closing"] ELSE conns
       ELSE UNCHANGED <<wsdisc, conns>>
    /\ UNCHANGED <<websocket, backoff_seconds, wsrun, ws_rest>>

\* the close() awaited by that disconnect() has returned (lines 39-41)
DisconnectResumes ==
    /\ wsdisc.at = "closing" /\ conns[wsdisc.conn] = "closed"
    /\ websocket' = 0
    /\ wsdisc' = At("idle", 0)
    /\ UNCHANGED <<running, _stop, backoff_seconds, wsrun, conns, ws_rest>>

\* the closing handshake of a connection on which close() was called ends
ConnCloses(c) ==
    /\ c \in DOMAIN conns /\ conns[c] = "closing"
    /\ conns' = [conns EXCEPT ![c] = "closed"]
    /\ UNCHANGED <<websocket, running, _stop, backoff_seconds, wsrun, wsdisc, ws_rest>>

\* the server closes a connection, or the connection is lost
PeerCloses(c) ==
    /\ c \in DOMAIN conns /\ conns[c] = "open"
    /\ conns' = [conns EXCEPT ![c] = "closed"]
    /\ UNCHANGED <<websocket, running, _stop, backoff_seconds, wsrun, wsdisc, ws_rest>>

NextWs ==
    \/ RunStart
    \/ ConnectSucceeds
    \/ ConnectFails
    \/ RetrySleepEnds
    \/ \E err \in BOOLEAN : ListenEnds(err)
    \/ ReconnectSleepEnds
    \/ FinalCloseEnds
    \/ Disconnect
    \/ DisconnectResumes
    \/ \E c \in 1..MaxConns : ConnCloses(c)
    \/ \E c \in 1..MaxConns : PeerCloses(c)

\* the event loop runs every coroutine that can go on: timers expire,
\* websockets.connect returns or raises within its timeout, and a closing
\* handshake ends within its timeout.  Nothing obliges the server to close
\* a connection, or another task to call disconnect().
FairWs ==
    /\ WF_vars(RunStart)
    /\ WF_vars(ConnectSucceeds \/ ConnectFails)
    /\ WF_vars(RetrySleepEnds)
    /\ WF_vars(\E err \in BOOLEAN : ListenEnds(err))
    /\ WF_vars(ReconnectSleepEnds)
    /\ WF_vars(FinalCloseEnds)
    /\ WF_vars(DisconnectResumes)
    /\ WF_vars(\E c \in 1..MaxConns : ConnCloses(c))

SpecWsFair == Init /\ [][NextWs]_vars /\ FairWs

(***************************************************************************)
(* Properties.  last is the record of the call that has just returned; the *)
(* registry and the children are as that call left them.                   *)
(***************************************************************************)

\* the registry holds at most one process, that of the active server
C1_OneEntry ==
    /\ Cardinality(DOMAIN server_processes) <= 1
    /\ server_processes # EmptyMap => DOMAIN server_processes = {active_server}

\* while activate_server waits in deactivate_server's sleep, the child of the
\* server that was active has been sent terminate (or has exited)
C1_TerminateSent ==
    \A t \in Tasks :
        pc[t].at = "sleep" =>
            ~children[pc[t].child].alive \/ children[pc[t].child].sig = "term"

\* activate_server returned true: its server is the active one and its child
\* the only recorded one
C1_OnlyActive ==
    (last.op = "activate_server" /\ last.ret = RetTrue) =>
        /\ active_server = last.name
        /\ DOMAIN server_processes = {last.name}
        /\ server_processes[last.name] = last.child

\* a step that spawns a child: no server is active, the registry is empty,
\* and the child recorded before has exited
C1_SpawnStep ==
    Len(children') > Len(children) =>
        /\ active_server' = NoServer
        /\ server_processes' = EmptyMap
        /\ \A n \in DOMAIN server_processes : ~children'[server_processes[n]].alive

\* C1: at most one server is active at any time.  When activate_server(B) is
\* called while A is active, A's child is sent terminate, and kill if it
\* still lives after the sleep, and A is removed from the registry before
\* B's child is spawned; when the call returns true, B is the only active
\* server and its child the only one in server_processes.
C1_ActivateReplaces ==
    /\ [](C1_OneEntry /\ C1_TerminateSent /\ C1_OnlyActive)
    /\ [][C1_SpawnStep]_vars

\* activate_server(B) has returned true after it found A # B active and
\* killed A's child
C1_Witness ==
    /\ last.op = "activate_server" /\ last.ret = RetTrue
    /\ last.was # NoServer /\ last.was # last.name
    /\ active_server = last.name
    /\ Len(children) = 2 /\ ~children[1].alive

\* C2: for every enabled server definition, activate_server followed by
\* deactivate_server leaves active_server None and server_processes empty,
\* and the child that was spawned terminated: the child deactivate_server
\* found recorded has exited, and the child of an activation that failed,
\* which deactivate_server finds unrecorded, has exited or been sent
\* terminate.
C2_ActivateThenDeactivate ==
    /\ last.op = "deactivate_server" =>
          /\ active_server = NoServer
          /\ server_processes = EmptyMap
          /\ last.child # 0 => ~children[last.child].alive
    /\ (last.op = "activate_server" /\ last.ret = RetFalse /\ last.child # 0) =>
          /\ last.name \in DOMAIN servers /\ servers[last.name].enabled
          /\ ~children[last.child].alive \/ children[last.child].sig # "none"

\* deactivate_server has returned after it killed the child of the active
\* filesystem server
C2_Witness ==
    /\ last.op = "deactivate_server" /\ last.path = "done"
    /\ last.was = "filesystem" /\ last.child # 0
    /\ ~children[last.child].alive
    /\ active_server = NoServer

\* C3: when the handshake loop ends at its deadline and no initialize
\* response (id 1 with result or error) was read, activate_server returns
\* false, the child is killed and no server is active, also when the child
\* lives and is silent.
C3_DeadlineFails ==
    (last.op = "activate_server" /\ last.deadline /\ ~last.init_done) =>
        /\ last.ret = RetFalse
        /\ active_server = NoServer
        /\ ~children[last.child].alive

\* C4: when the child has exited at the poll after the spawn, or exits
\* before an initialize response was read, activate_server returns false, no
\* server is active, and what it returns carries the child's stderr text.
C4_ExitReported ==
    (/\ last.op = "activate_server" /\ last.child # 0
     /\ ~last.init_done /\ ~children[last.child].alive) =>
        /\ last.ret.kind = "bool" /\ last.ret # RetTrue
        /\ active_server = NoServer
        /\ last.ret.val = StderrText

\* C5: in the handshake of the filesystem server every roots/list request the
\* child wrote before the deadline is answered by exactly one response with
\* the id of the request and one root, the file URI of the resolved session
\* directory named by its base name.  Stated for the activations that return
\* true with the child's stdin open.
C5_RootsAnswered ==
    (/\ last.op = "activate_server" /\ last.name = "filesystem"
     /\ last.ret = RetTrue /\ children[last.child].stdin) =>
        LET replies == SelectSeq(last.sent, LAMBDA m : m.kind = "response")
            pending == {k \in DOMAIN last.unread : last.unread[k] = RootsReq}
            root == [uri |-> AsUri(last.dir), name |-> last.dir[Len(last.dir)]]
        IN  /\ Len(replies) = last.asked + Cardinality(pending)
            /\ \A k \in DOMAIN replies : replies[k] = RootsReply(RootsReq.id, <<root>>)

\* C6: what execute_tool and list_tools return is taken from the response
\* whose id is that of the request just written (3 for tools/call, 2 for
\* tools/list); no other line is returned as the result of the call.
C6_ResultFromMatchingResponse ==
    /\ (last.op = "execute_tool" /\ last.ret.kind = "result") =>
          last.line.id = CallId /\ last.line.body = "result"
    /\ (last.op = "list_tools" /\ last.path = "line" /\ last.ret # RetEmptyList) =>
          last.line.id = ListId /\ last.line.body = "result"

\* C7: execute_tool and list_tools always return: a child that lives and
\* writes no response, or only a part of a line, does not block the call
\* for ever.
C7_ToolCallsReturn ==
    \A t \in Tasks : ~(pc[t].at = "hung" /\ pc[t].op \in {"execute_tool", "list_tools"})

\* C8: activate_server always returns, whatever the child does after the
\* spawn: nothing, lines without end, or a part of a line with no newline.
C8_ActivateReturns ==
    \A t \in Tasks : ~(pc[t].at = "hung" /\ pc[t].op = "activate_server")

\* C9: when the child's stdout closes while execute_tool waits for the
\* response (the request was written and no line was read), execute_tool
\* returns an error and the active slot is cleared, so that the next
\* execute_tool finds no active server.
C9_ClosedStdoutClearsSlot ==
    (last.op = "execute_tool" /\ last.sent = <<CallRequest>> /\ last.line = NoLine) =>
        /\ last.ret.kind = "error"
        /\ active_server = NoServer
        /\ server_processes = EmptyMap

\* C10: when the active child has exited as list_tools is called, or the
\* write of the tools/list request hits a broken pipe, list_tools returns an
\* empty list and clears the active slot and the process entry; and a
\* list_tools or execute_tool call that finds no server active returns its
\* no-active-server result and writes to no child.
C10_DeadChildClearsSlot ==
    /\ (last.op = "list_tools" /\ last.path \in {"dead", "broken_pipe"}) =>
          /\ last.was # NoServer /\ last.sent = <<>>
          /\ last.ret = RetEmptyList
          /\ active_server = NoServer
          /\ server_processes = EmptyMap
    /\ (last.op \in {"list_tools", "execute_tool"} /\ last.was = NoServer) =>
          /\ last.ret = IF last.op = "list_tools" THEN RetEmptyList ELSE ErrNoActive
          /\ last.sent = <<>> /\ last.child = 0
          /\ active_server = NoServer

\* list_tools found the recorded child exited, cleared the slot and returned
\* the empty list
C10_Witness ==
    /\ last.op = "list_tools" /\ last.path = "dead"
    /\ last.ret = RetEmptyList
    /\ active_server = NoServer /\ server_processes = EmptyMap
    /\ ~children[last.child].alive

\* C11: list_tools and execute_tool called with no server active both return
\* a no-active-server error, a value that is no result; they write to no
\* child, do not block, and leave the registry as it was.
C11_NoActiveError ==
    (last.op \in {"list_tools", "execute_tool"} /\ last.was = NoServer) =>
        /\ last.ret = ErrNoActive
        /\ last.sent = <<>> /\ last.child = 0
        /\ active_server = NoServer /\ server_processes = EmptyMap

\* C12: after an activate_server call that returned false, and after a
\* list_tools or execute_tool call that ended in a transport error (end of
\* file, broken pipe, dead child), no server is active: active_server is None
\* and get_server_info marks none active.  Stated for the activations that
\* fail after the lookup of the definition.
C12_FailureLeavesNoActive ==
    (\/ /\ last.op = "activate_server" /\ last.ret = RetFalse
        /\ last.path \notin {"not_found", "disabled"}
     \/ /\ last.op \in {"list_tools", "execute_tool"}
        /\ last.path \in {"eof", "broken_pipe", "dead"}) =>
        /\ active_server = NoServer
        /\ \A n \in DOMAIN GetServerInfo : ~GetServerInfo[n].active

\* deactivate_server has returned: it did not raise, and no server is active
\* and no process recorded; with nothing active it dealt with no child
C15_Cleared ==
    last.op = "deactivate_server" =>
        /\ last.path # "raised"
        /\ active_server = NoServer /\ server_processes = EmptyMap
        /\ last.was = NoServer => (last.path = "noop" /\ last.child = 0)

\* a deactivate_server step with nothing active leaves every child as it is
C15_NoopStep ==
    (active_server = NoServer /\ last'.op = "deactivate_server" /\ last' # last) =>
        children' = children /\ pc' = pc

\* C15: deactivate_server never raises and always ends with no active
\* server: with nothing active it is a no-op that signals no process; called
\* again, or when the active child has already exited, it completes and
\* clears the active slot and the process entry.
C15_DeactivateCompletes ==
    /\ []C15_Cleared
    /\ [][C15_NoopStep]_vars

\* deactivate_server was called a second time, after a child had been
\* spawned and was gone, and was a no-op
C15_Witness ==
    /\ last.op = "deactivate_server" /\ last.path = "noop"
    /\ children # <<>> /\ ~children[1].alive
    /\ active_server = NoServer /\ server_processes = EmptyMap

\* execute_tool has returned for a tools/call response that carries an error:
\* it returned the payload, and the active server and its process entry are
\* as before the call
C16_Survives ==
    (last.op = "execute_tool" /\ last.line = CallErr) =>
        /\ last.ret = Ret("error", CallErr.val)
        /\ last.was # NoServer /\ active_server = last.was
        /\ DOMAIN server_processes = {last.was}
        /\ server_processes[last.was] = last.child
        /\ children[last.child].held

\* the execute_tool that follows writes its request to the same child
C16_NextCallStep ==
    (last.op = "execute_tool" /\ last.line = CallErr) =>
        \A t \in Tasks :
            (pc[t].at = "idle" /\ pc'[t].at = "awaiting" /\ pc'[t].op = "execute_tool") =>
                pc'[t].child = last.child

\* C16: when the tools/call response carries a JSON-RPC error, execute_tool
\* returns that error payload and the session survives: the active server
\* and its process entry are the same after the call as before, and a
\* following execute_tool is sent to the same child.
C16_ErrorPassedThrough ==
    /\ []C16_Survives
    /\ [][C16_NextCallStep]_vars

\* execute_tool has returned the error payload of the child's response
C16_Witness ==
    /\ last.op = "execute_tool" /\ last.line = CallErr
    /\ last.ret = Ret("error", "call-error")
    /\ active_server = last.was /\ server_processes[last.was] = last.child

\* the call failed: activate_server returned false, or a tool call ended in a
\* no-active-server, transport or application error
C17_Failed(call) ==
    \/ call.op = "activate_server" /\ call.ret # RetTrue
    \/ call.op = "execute_tool" /\ call.ret.kind = "error"
    \/ call.op = "list_tools" /\
          call.path \in {"no_active", "no_process", "dead", "broken_pipe", "eof", "timeout"}

\* C17: when an MCP operation requested through the router fails, the reply
\* is an envelope with success false and an error message; a reply with
\* success true is sent only for an operation that succeeded.
C17_EnvelopeReportsFailure ==
    (last.op # "" /\ C17_Failed(last)) =>
        /\ ~RouterReply(last).success
        /\ RouterReply(last).error # ""

\* activate_server returned true: the argv of its child is the command, the
\* args in order and, for the filesystem server only, the directory resolved
\* for the session id as the one further argument
C18_Argv ==
    (last.op = "activate_server" /\ last.ret = RetTrue) =>
        LET argv == children[last.child].argv
            def  == servers[last.name]
            n    == Len(def.args)
        IN  /\ Len(argv) >= n + 1
            /\ argv[1] = <<def.command>>
            /\ \A i \in 1..n : argv[i + 1] = <<def.args[i]>>
            /\ IF last.name = "filesystem"
               THEN /\ Len(argv) = n + 2
                    /\ IF last.sid # NoSession
                       THEN argv[n + 2] = <<"", "recordings", last.sid>>
                       ELSE \E o \in ScanOrders(sessdirs) :
                               argv[n + 2] = <<"">> \o ResolveSessionDir(sessdirs, o, NoSession)
               ELSE Len(argv) = n + 1

\* a step that spawns a child: every child the client held before it has
\* exited or was sent terminate
C18_SpawnStep ==
    Len(children') > Len(children) =>
        \A i \in DOMAIN children :
            children[i].held => (~children'[i].alive \/ children'[i].sig = "term")

C20_Deterministic ==
    [][(/\ last.op = "_resolve_session_dir" /\ last'.op = "_resolve_session_dir"
        /\ last'.sid = last.sid /\ sessdirs' = sessdirs) => last'.dir = last.dir]_vars

\* C13: deactivate_server can be invoked while an execute_tool or list_tools
\* call is outstanding: while a task's tool call waits for the child's
\* response, another task can begin a call.
C13_DeactivateWhileOutstanding ==
    \A t \in Tasks :
        (pc[t].op \in {"execute_tool", "list_tools"} /\ pc[t].at \in {"awaiting", "hung"}) =>
            \E u \in Tasks \ {t} : CanStart(u)

\* C14: activate_server and deactivate_server calls of independent tasks
\* that overlap at the sleep of deactivate_server behave as in some serial
\* order: no call raises, at most one server is recorded, and every child
\* that lives and was not sent terminate is the recorded one or that of an
\* activation in progress.
C14_OverlapSerial ==
    /\ last.path # "raised"
    /\ Cardinality(DOMAIN server_processes) <= 1
    /\ \A i \in DOMAIN children :
          (children[i].alive /\ children[i].sig = "none") =>
              \/ \E n \in DOMAIN server_processes : server_processes[n] = i
              \/ \E t \in Tasks : pc[t].at = "handshake" /\ pc[t].child = i

\* a step in which activate_server returns for a name that is not configured
\* or whose definition is disabled: it returns false, and the registry, the
\* active server and every child are as before the call
C25_Step ==
    (/\ last'.op = "activate_server"
     /\ last'.name \notin DOMAIN servers \/ ~servers[last'.name].enabled) =>
        /\ last'.ret = RetFalse
        /\ children' = children
        /\ active_server' = active_server /\ last'.was = active_server
        /\ server_processes' = server_processes
        /\ servers' = servers

\* C25: activate_server(name) with a name that is not configured, or whose
\* definition is disabled, returns false without spawning a child and
\* without changing the registry: a server active before the call is still
\* active afterwards, with the same child, untouched.
C25_UnknownOrDisabledRefused == [][C25_Step]_vars

\* activate_server of the disabled web-search returned false while filesystem
\* was active, and filesystem's child lives on, recorded
C25_Witness ==
    /\ last.op = "activate_server" /\ last.name = "web-search" /\ last.ret = RetFalse
    /\ last.was = "filesystem" /\ active_server = "filesystem"
    /\ "filesystem" \in DOMAIN server_processes
    /\ children[server_processes["filesystem"]].alive
    /\ children[server_processes["filesystem"]].sig = "none"

\* C30: with calls run one at a time, server_processes is empty exactly when
\* active_server is None, and otherwise holds exactly one entry, keyed by
\* active_server; get_server_info marks at most one server as active.
C30_SlotMatchesProcesses ==
    /\ server_processes = EmptyMap <=> active_server = NoServer
    /\ active_server # NoServer => DOMAIN server_processes = {active_server}
    /\ Cardinality({n \in DOMAIN GetServerInfo : GetServerInfo[n].active}) <= 1
    /\ active_server # NoServer =>
          {n \in DOMAIN GetServerInfo : GetServerInfo[n].active} = {active_server}

\* execute_tool ended in a transport error and left the server active: the
\* one entry of server_processes is still that of the active server
C30_Witness ==
    /\ last.op = "execute_tool" /\ last.path \in {"eof", "broken_pipe"}
    /\ active_server = "memory"
    /\ DOMAIN server_processes = {"memory"}
    /\ GetServerInfo["memory"].active /\ ~GetServerInfo["filesystem"].active

\* the directory p is on disk: the recordings root, or a subdirectory of it
C21_OnDisk(p) ==
    \/ p = <<"recordings">>
    \/ /\ Len(p) = 2 /\ p[1] = "recordings"
       /\ p[2] \in DOMAIN sessdirs /\ sessdirs[p[2]].is_dir

\* every root in a roots/list reply among the messages sent is on disk
C21_RootsOnDisk(sent) ==
    \A i \in DOMAIN sent :
        sent[i].kind = "response" =>
            \A j \in DOMAIN sent[i].roots : C21_OnDisk(sent[i].roots[j].uri.path)

\* C21: the directory bound to a filesystem activation is on disk from the
\* step that spawns the child on, so before any roots/list reply: the
\* directory in the argv of a filesystem child in its handshake, and of the
\* child of a filesystem activation that returned, exists, and so does every
\* root sent in a roots/list reply.
C21_DirExistsBeforeSpawn ==
    /\ \A t \in Tasks :
          (pc[t].at \in {"handshake", "hung"} /\ pc[t].name = "filesystem") =>
              /\ C21_OnDisk(ChildDir(children[pc[t].child]))
              /\ C21_RootsOnDisk(pc[t].st.sent)
    /\ (last.op = "activate_server" /\ last.name = "filesystem" /\ last.child # 0) =>
          /\ C21_OnDisk(last.dir)
          /\ C21_RootsOnDisk(last.sent)

\* a filesystem activation for the session S2, whose directory was not there
\* at the start, answered a roots/list request with that directory
C21_Witness ==
    /\ last.op = "activate_server" /\ last.name = "filesystem" /\ last.sid = "S2"
    /\ last.ret = RetTrue /\ last.dir = <<"recordings", "S2">>
    /\ "S2" \in DOMAIN sessdirs
    /\ \E i \in DOMAIN last.sent :
          /\ last.sent[i].kind = "response"
          /\ last.sent[i].roots[1].uri.path = <<"recordings", "S2">>

\* C26: during the handshake a line that is no protocol message (a blank
\* line, text that is not JSON, or JSON that is not an object) is skipped
\* and does not change the outcome: no activation ends at such a line.
C26_StrayLineSkipped ==
    last.op = "activate_server" => last.line.t \notin {"blank", "text", "nonobj"}

\* how many roots/list_changed notifications are among the messages sent
C27_Notified(sent) == Cardinality({i \in DOMAIN sent : sent[i] = ListChanged})

\* a handshake step that sends the notification has read an initialize
\* response that carries a result
C27_Step ==
    \A t \in Tasks :
        (/\ pc[t].at = "handshake" /\ pc'[t].at = "handshake"
         /\ C27_Notified(pc'[t].st.sent) > C27_Notified(pc[t].st.sent)) =>
            pc'[t].st.init_done /\ pc'[t].st.init_ok

\* an activation that sent the notification had read an initialize response,
\* and no activation ends by an exception at the initialize result
C27_Returned ==
    last.op = "activate_server" =>
        /\ C27_Notified(last.sent) > 0 => last.init_done
        /\ last.line # InitResult

\* C27: the client sends roots/list_changed only after it has read an
\* initialize response carrying a result: never before the response, never
\* for a response that carries an error; and a failure to write the
\* notification does not fail the activation.
C27_NotifyAfterInitResult ==
    /\ []C27_Returned
    /\ [][C27_Step]_vars

\* the initialize result was read when the child had closed its stdin: the
\* notification could not be written, and the activation returned true
C27_Witness ==
    /\ last.op = "activate_server" /\ last.ret = RetTrue
    /\ last.init_done /\ last.init_ok
    /\ C27_Notified(last.sent) = 0
    /\ ~children[last.child].stdin

\* how many roots/list replies are among the messages sent
C28_Replies(sent) == Cardinality({i \in DOMAIN sent : sent[i].kind = "response"})

\* C28: the handshake read loop stops as soon as the initialize response has
\* been seen and no roots request is pending: an activation that has read
\* the initialize response and answered every roots request it read does not
\* end by waiting until the deadline.
C28_StopsAfterInit ==
    (/\ last.op = "activate_server" /\ last.ret = RetTrue
     /\ last.init_done /\ last.asked = C28_Replies(last.sent)) =>
        ~last.deadline

\* C29: if the initialize response carries an error instead of a result the
\* handshake is failed: activate_server returns false, the child is
\* terminated and the server does not become active.
C29_InitErrorFails ==
    (last.op = "activate_server" /\ last.init_done /\ ~last.init_ok) =>
        /\ last.ret = RetFalse
        /\ active_server = NoServer
        /\ ~children[last.child].alive \/ children[last.child].sig = "term"

\* the entry e of a document holds the command, args, env, enabled,
\* description and icon of the definition d
C22_Holds(e, d) ==
    /\ e.command = d.command /\ e.args = d.args /\ e.env = d.env
    /\ e.enabled = d.enabled /\ e.description = d.description /\ e.icon = d.icon

C23_AtomicRewrite == [][disk' # disk => (disk'.exists /\ disk'.complete)]_vars

\* C24: at startup the registry is the built-in defaults merged with the
\* persisted configuration, the persisted one winning: every name of the
\* persisted document is loaded with the persisted definition, also when a
\* built-in has that name, and every built-in name absent from the document
\* is there with its default definition.
C24_PersistedWins ==
    last.op = "__init__" =>
        LET persisted == IF disk.exists /\ disk.complete THEN disk.servers ELSE NoDefs
        IN  /\ DOMAIN servers = DOMAIN persisted \cup DOMAIN DefaultServers
            /\ \A n \in DOMAIN persisted :
                  servers[n].name = n /\ C22_Holds(persisted[n], servers[n])
            /\ \A n \in DOMAIN DefaultServers \ DOMAIN persisted :
                  servers[n] = DefaultServers[n]

\* a client was constructed from a document, written by add_server, that
\* redefines the built-in filesystem and has no other entry
C24_Witness ==
    /\ last.op = "__init__"
    /\ DOMAIN disk.servers = {"filesystem"}
    /\ disk.exists /\ disk.complete
    /\ "filesystem" \in DOMAIN disk.servers /\ "memory" \notin DOMAIN disk.servers
    /\ servers["filesystem"] = Override /\ Override # DefaultServers["filesystem"]
    /\ servers["memory"] = DefaultServers["memory"]

\* C31: between registry operations, every child the registry spawned that
\* has neither exited nor been sent terminate or kill is the child recorded
\* in server_processes for the active server.
C31_NoLeakedChild ==
    (\A t \in Tasks : pc[t].at = "idle") =>
        \A i \in DOMAIN children :
            (children[i].alive /\ children[i].sig = "none") =>
                /\ active_server \in DOMAIN server_processes
                /\ server_processes[active_server] = i

\* C34: every list_tools call that returns, returns a list: the tools of the
\* response when the line read has result.tools, and an empty list on every
\* other path; it never returns None.
C34_ReturnsList ==
    last.op = "list_tools" =>
        /\ last.ret.kind = "list"
        /\ (last.path = "line" /\ last.line.body = "result" /\ last.line.tools) =>
              last.ret = Ret("list", last.line.val)
        /\ ~(last.path = "line" /\ last.line.body = "result" /\ last.line.tools) =>
              last.ret = RetEmptyList

\* p is the recordings root or lies inside it, ".." segments folded
C33_Inside(p) ==
    /\ Len(ResolvePath(p)) >= Len(RecordingsDir)
    /\ SubSeq(ResolvePath(p), 1, Len(RecordingsDir)) = RecordingsDir

\* C33: for every session id, the directory resolved for it, the directory
\* in the argv of every filesystem child and every root advertised to a
\* child is the recordings root or a directory inside it.
C33_BoundInsideRoot ==
    /\ last.op = "_resolve_session_dir" => C33_Inside(last.dir)
    /\ \A i \in DOMAIN children :
          (children[i].name = "filesystem" /\ children[i].argv # NoCmd) =>
              C33_Inside(ChildDir(children[i]))
    /\ \A t \in Tasks : \A k \in DOMAIN pc[t].st.sent :
          pc[t].st.sent[k].kind = "roots" =>
              \A j \in DOMAIN pc[t].st.sent[k].roots :
                  C33_Inside(pc[t].st.sent[k].roots[j].uri.path)

\* C35: whenever a server is active, its name is a key of the servers
\* registry and that definition is enabled.
C35_ActiveIsEnabledDefinition ==
    active_server # NoServer =>
        /\ active_server \in DOMAIN servers
        /\ servers[active_server].enabled

\* C36: a step in which add_mcp_server, update_mcp_server or
\* remove_mcp_server returns false because save_config raised leaves the
\* in-memory registry holding the same definitions as before the call.
C36_FailedSaveKeepsRegistry ==
    [][(/\ last'.op \in {"add_mcp_server", "update_mcp_server", "remove_mcp_server"}
        /\ last'.path = "save_raised" /\ last'.ret = RetFalse) => servers' = servers]_vars

\* C37: removal is durable: a client constructed afresh from the file that
\* remove_server(n) left has no definition named n, built-in names included.
C37_RemovalDurable ==
    (last.op = "remove_server" /\ last.path = "saved") =>
        last.name \notin DOMAIN Construct(disk)

\* C32: when close() has returned, every child that was recorded has been
\* sent terminate or kill or has exited, server_processes is empty and no
\* server is reported active: active_server is None and get_server_info
\* marks nothing active.
C32_CloseLeavesNothingActive ==
    (last.op = "close" /\ last.path = "done") =>
        /\ \A i \in DOMAIN children : ~children[i].alive \/ children[i].sig # "none"
        /\ server_processes = EmptyMap
        /\ active_server = NoServer
        /\ \A n \in DOMAIN GetServerInfo : ~GetServerInfo[n].active

\* the agent configuration has a filesystem entry
C38_HasEntry(f) == f.exists /\ f.readable /\ f.keyed /\ "filesystem" \in DOMAIN f.servers

\* after a binding (at construction or by prepare_for_session) the args of
\* the filesystem entry hold no 'stdio' and exactly one directory, as their
\* last element: the directory of that binding
C38_Rebound ==
    (/\ last.op \in {"__init__", "prepare_for_session"}
     /\ last.path \in {"done", "failed"}
     /\ C38_HasEntry(mcp_config)) =>
        LET args == mcp_config.servers["filesystem"].args
        IN  /\ \A i \in DOMAIN args : args[i] # Text("stdio")
            /\ Cardinality({i \in DOMAIN args : StartsWithSlash(args[i])}) = 1
            /\ args # <<>> /\ args[Len(args)] = Str(last.dir)

\* a step never modifies the entry of another server, and a binding to the
\* directory of the binding just before it leaves the file as it is
C38_Step ==
    /\ DOMAIN mcp_config'.servers = DOMAIN mcp_config.servers
    /\ \A n \in DOMAIN mcp_config.servers \ {"filesystem"} :
          mcp_config'.servers[n] = mcp_config.servers[n]
    /\ (/\ last.op \in {"__init__", "prepare_for_session"} /\ last.path = "done"
        /\ last'.op = "prepare_for_session" /\ last'.path = "done"
        /\ last'.dir = last.dir) => mcp_config' = mcp_config

C39_ClosedBeforeReplaced ==
    [][(/\ last'.op = "prepare_for_session" /\ last'.path = "done"
        /\ close_kind # "absent"
        /\ mcp_use_client # 0 /\ mcp_use_client' # mcp_use_client) =>
           /\ ~clients'[mcp_use_client].open
           /\ Cardinality({i \in DOMAIN clients' : clients'[i].open}) <= 1]_vars

\* C40: once disconnect() has been called while run() is in progress, at
\* whatever point of run(), run() eventually returns with no websocket held
\* and running false.
C40_RunReturnsAfterDisconnect ==
    (_stop /\ wsrun.at # "not_started") ~>
        (wsrun.at = "returned" /\ websocket = 0 /\ ~running)

=============================================================================
